---- MODULE Spec2Model ----
(***************************************************************************)
(* A model of the AST transformer of @dcyfr/ai-code-gen                    *)
(* (src/src/ast/transformer.ts), and, further down, of its parser and      *)
(* analyzer (src/src/ast/printer.ts:170-478, src/src/ast/analyzer.ts), of  *)
(* its printer (src/src/ast/printer.ts:25-135) and of its template engine  *)
(* (src/unnamed/part_005).                                                 *)
(*                                                                         *)
(* A source text is modelled as the sequence of its top-level statements;  *)
(* the ts-morph SourceFile built from it is the same sequence, edited in   *)
(* place by the operations.  A statement is a record with a "kind" field:  *)
(*   import    moduleSpecifier, namedImports (a sequence of names, in      *)
(*             source order), defaultImport, namespaceImport, isTypeOnly   *)
(*   class     name, methods, properties (sequences of member records),    *)
(*             isExported, isDefault                                       *)
(*   function, interface, type-alias   name, isExported, isDefault         *)
(*   export    namedExports (export { name };)                             *)
(*   other     any other statement (const x = 1;), with the identifiers    *)
(*             it refers to (refs)                                         *)
(* A transform operation is a record holding exactly the fields the        *)
(* caller supplied: an optional field that was left out is absent from     *)
(* the record's DOMAIN (undefined in the source).                          *)
(***************************************************************************)
EXTENDS Integers, Sequences, FiniteSets, TLC

VARIABLES
    text,           \* transform's argument `source`
    operations,     \* transform's argument `operations`
    pc,             \* "loop" inside the for loop of transform, "done" after return
    i,              \* 1-based index of the operation the loop reaches next
    sourceFile,     \* the working tree (project.createSourceFile)
    appliedCount,   \* let appliedCount
    failures,       \* const failures: TransformError[]
    result,         \* the TransformResult returned, NoResult before the return
    outcome,        \* history: how the last iteration ended, "applied" (try
                    \* block completed), "failed" (catch block), "none" before
    earlier,        \* history: the inputs and result of one earlier call, or NoCall
    textA,        \* the text given to parseSource and analyzeCode, and
                    \* compareStructure's first argument
    textB,        \* compareStructure's second argument
    parsed,         \* the AnalysisResult of parseSource(textA), NoResult before
    report,         \* the AnalysisReport of analyzeCode(textA), NoResult before
    diff,           \* the result of compareStructure(textA, textB), NoResult before
    diffBack,       \* the result of compareStructure(textB, textA), NoResult before
    licenseText,    \* addLicenseHeader's argument `source`
    licenseHeader,  \* addLicenseHeader's argument `header`
    stamped,        \* what addLicenseHeader returned, NoResult before
    importOptions,  \* generateImport's argument `options`
    importStatement, \* what generateImport returned, NoResult before
    definitions,    \* TemplateEngine.definitions: template id -> definition
    compiledCache,  \* TemplateEngine.compiledCache: cache key -> compiled template
    registered,     \* history: the definitions registered so far, in call order
    rendered,       \* the last render or renderSource call and how it ended, NoCall before
    calls           \* history: the number of calls made on the engine

transformerVars ==
    <<text, operations, pc, i, sourceFile, appliedCount, failures, result, outcome,
      earlier>>

analyzerVars == <<textA, textB, parsed, report, diff, diffBack>>

printerVars ==
    <<licenseText, licenseHeader, stamped, importOptions, importStatement>>

engineVars == <<definitions, compiledCache, registered, rendered, calls>>

vars == <<transformerVars, analyzerVars, printerVars, engineVars>>

-----------------------------------------------------------------------------
(* Bounds of the model *)

\* longest batch of operations given to one transform call
MaxOps == 2

\* longest batch of operations in the runs that call transform repeatedly
MaxCallOps == 1

\* undefined: an optional binding that is absent
None == "<undefined>"

\* no TransformResult yet
NoResult == [returned |-> FALSE]

\* no earlier call recorded
NoCall == [called |-> FALSE]

-----------------------------------------------------------------------------
(* Sequence helpers *)

InSeq(x, s) == \E k \in 1..Len(s) : s[k] = x

\* Array.prototype.find / findIndex: the first position holding x, 0 if none
FirstIndex(x, s) ==
    IF InSeq(x, s) THEN CHOOSE k \in 1..Len(s) : s[k] = x /\ \A j \in 1..(k - 1) : s[j] # x
    ELSE 0

RemoveAt(s, k) == SubSeq(s, 1, k - 1) \o SubSeq(s, k + 1, Len(s))

InsertAt(s, k, x) == SubSeq(s, 1, k - 1) \o <<x>> \o SubSeq(s, k, Len(s))

Count(x, s) == Cardinality({k \in 1..Len(s) : s[k] = x})

\* op[f], or d when the caller left the optional field out (undefined)
Field(op, f, d) == IF f \in DOMAIN op THEN op[f] ELSE d

-----------------------------------------------------------------------------
(* Outcome of applying one operation: it returns normally with the edited  *)
(* tree, or throws an Error with a message leaving the tree as it was when *)
(* the throw happened.  A message is the sequence of its words.            *)

Ok(file) == [threw |-> FALSE, file |-> file, message |-> <<>>]

Throw(file, msg) == [threw |-> TRUE, file |-> file, message |-> msg]

\* String.prototype.includes on a message, for a phrase of words
Mentions(msg, phrase) ==
    \E k \in 0..(Len(msg) - Len(phrase)) :
        \A j \in 1..Len(phrase) : msg[k + j] = phrase[j]

-----------------------------------------------------------------------------
(* ts-morph lookups on the tree *)

IsImport(st) == st.kind = "import"

\* sourceFile.getImportDeclaration(moduleSpecifier): the position of the
\* first import declaration of that module, 0 when there is none
GetImportDeclaration(file, moduleSpecifier) ==
    LET hits == {k \in 1..Len(file) :
                    IsImport(file[k]) /\ file[k].moduleSpecifier = moduleSpecifier}
    IN  IF hits = {} THEN 0 ELSE CHOOSE k \in hits : \A j \in hits : k <= j

\* sourceFile.getClass / getFunction / getInterface / getTypeAlias (name):
\* the position of the first declaration of that kind and name, 0 if none
GetDeclaration(file, kind, name) ==
    LET hits == {k \in 1..Len(file) : file[k].kind = kind /\ file[k].name = name}
    IN  IF hits = {} THEN 0 ELSE CHOOSE k \in hits : \A j \in hits : k <= j

\* the positions of the import declarations of a module
ImportsOf(file, moduleSpecifier) ==
    {k \in 1..Len(file) : IsImport(file[k]) /\ file[k].moduleSpecifier = moduleSpecifier}

-----------------------------------------------------------------------------
(* add-import *)

\* existing.addNamedImports(newNames): appended after the bindings already
\* there, in the order given; ts-morph refuses to add named imports to an
\* import that binds a namespace (import * as n from ...)
AddNamedImports(file, k, newNames) ==
    IF file[k].namespaceImport # None /\ Len(file[k].namedImports) = 0
    THEN Throw(file, <<"Cannot", "add", "a", "named", "import", "to", "an", "import",
                       "declaration", "that", "has", "a", "namespace", "import">>)
    ELSE Ok([file EXCEPT ![k].namedImports = @ \o newNames])

\* faulty variant of AddImportDeclaration: the new import always goes to the top of
\* the file
AddImportDeclarationAtTop(file, structure) == <<structure>> \o file

\* sourceFile.addImportDeclaration(structure): the new import goes after the
\* last import declaration of the file, at the top when there is none
AddImportDeclaration(file, structure) ==
    LET imps == {k \in 1..Len(file) : IsImport(file[k])}
        last == IF imps = {} THEN 0 ELSE CHOOSE k \in imps : \A j \in imps : j <= k
    IN  InsertAt(file, last + 1, structure)

\* faulty variant of ImportStructure: the default binding and the type-only flag
\* are not passed on
ImportStructureNamedOnly(op) ==
    [kind            |-> "import",
     moduleSpecifier |-> op.moduleSpecifier,
     namedImports    |-> Field(op, "namedImports", <<>>),
     defaultImport   |-> None,
     namespaceImport |-> None,
     isTypeOnly      |-> FALSE]

\* the structure handed to addImportDeclaration (transformer.ts:92-97):
\* moduleSpecifier, namedImports, defaultImport and isTypeOnly ?? false
ImportStructure(op) ==
    [kind            |-> "import",
     moduleSpecifier |-> op.moduleSpecifier,
     namedImports    |-> Field(op, "namedImports", <<>>),
     defaultImport   |-> Field(op, "defaultImport", None),
     namespaceImport |-> None,
     isTypeOnly      |-> Field(op, "isTypeOnly", FALSE)]

applyAddImport(file, op) ==
    LET existing == GetImportDeclaration(file, op.moduleSpecifier)
    IN  IF existing # 0 /\ "namedImports" \in DOMAIN op
        THEN LET existingNames == file[existing].namedImports
                 NotThere(n) == ~InSeq(n, existingNames)
                 newNames == SelectSeq(op.namedImports, NotThere)
             IN  IF Len(newNames) > 0
                 THEN AddNamedImports(file, existing, newNames)
                 ELSE Ok(file)
        ELSE IF existing = 0
        THEN Ok(AddImportDeclaration(file, ImportStructure(op)))
        ELSE Ok(file)

-----------------------------------------------------------------------------
(* remove-import *)

\* the loop of transformer.ts:107-110: for each requested name in turn, the
\* first named import of that name (if any) is removed
RECURSIVE RemoveNamedImports(_, _)
RemoveNamedImports(named, names) ==
    IF names = <<>> THEN named
    ELSE LET k == FirstIndex(Head(names), named)
         IN  RemoveNamedImports(IF k = 0 THEN named ELSE RemoveAt(named, k), Tail(names))

applyRemoveImport(file, op) ==
    LET existing == GetImportDeclaration(file, op.moduleSpecifier)
    IN  IF existing = 0 THEN Ok(file)
        ELSE IF "namedImports" \in DOMAIN op /\ Len(op.namedImports) > 0
        THEN LET left == RemoveNamedImports(file[existing].namedImports, op.namedImports)
             IN  IF Len(left) = 0 /\ file[existing].defaultImport = None
                 THEN Ok(RemoveAt(file, existing))
                 ELSE Ok([file EXCEPT ![existing].namedImports = left])
        ELSE Ok(RemoveAt(file, existing))

-----------------------------------------------------------------------------
(* add-export *)

\* sourceFile.addStatements("\nexport [default ]<declaration>"): the declaration
\* text (modelled as the declaration statement it parses to) is appended as
\* the last statement, exported
\* sourceFile.addExportDeclaration({namedExports: [name]}): export { name };
\* appended as the last statement
applyAddExport(file, op) ==
    IF "declaration" \in DOMAIN op
    THEN Ok(Append(file, [op.declaration EXCEPT
                            !.isExported = TRUE,
                            !.isDefault  = Field(op, "isDefault", FALSE)]))
    ELSE Ok(Append(file, [kind |-> "export", namedExports |-> <<op.name>>]))

-----------------------------------------------------------------------------
(* add-property, add-method *)

ClassNotFound(targetClass) == <<"Class", targetClass, "not", "found">>

\* a parameter string "name: string, age: number" is modelled as the sequence
\* of its comma-separated pieces, each the sequence of its colon-separated,
\* trimmed parts; the empty (or blank) string is the empty sequence
parseParameterString(params) ==
    [k \in 1..Len(params) |->
        [name |-> params[k][1],
         type |-> IF Len(params[k]) >= 2 THEN params[k][2] ELSE "unknown"]]

\* faulty variant of applyAddProperty: a missing class is passed over in silence
applyAddPropertyIgnoringMissingClass(file, op) ==
    LET cls == GetDeclaration(file, "class", op.targetClass)
    IN  IF cls = 0 THEN Ok(file)
        ELSE Ok([file EXCEPT ![cls].properties =
                    Append(@, [name        |-> op.propertyName,
                               type        |-> op.propertyType,
                               initializer |-> Field(op, "initializer", None),
                               isReadonly  |-> Field(op, "isReadonly", FALSE)])])

applyAddProperty(file, op) ==
    LET cls == GetDeclaration(file, "class", op.targetClass)
    IN  IF cls = 0 THEN Throw(file, ClassNotFound(op.targetClass))
        ELSE Ok([file EXCEPT ![cls].properties =
                    Append(@, [name        |-> op.propertyName,
                               type        |-> op.propertyType,
                               initializer |-> Field(op, "initializer", None),
                               isReadonly  |-> Field(op, "isReadonly", FALSE)])])

\* faulty variant of applyAddMethod: the method is added to the class before
\* op.parameters is read, so the TypeError leaves a half-made edit behind
applyAddMethodEditingFirst(file, op) ==
    LET cls == GetDeclaration(file, "class", op.targetClass)
    IN  IF cls = 0 THEN Throw(file, ClassNotFound(op.targetClass))
        ELSE IF "parameters" \notin DOMAIN op
        THEN [Throw(file, <<"Cannot", "read", "properties", "of", "undefined",
                            "(reading", "'trim')">>)
                EXCEPT !.file = [file EXCEPT ![cls].methods =
                    Append(@, [name       |-> op.methodName,
                               returnType |-> op.returnType,
                               statements |-> op.body,
                               parameters |-> <<>>])]]
        ELSE Ok([file EXCEPT ![cls].methods =
                    Append(@, [name       |-> op.methodName,
                               returnType |-> op.returnType,
                               statements |-> op.body,
                               parameters |-> parseParameterString(op.parameters)])])

\* op.parameters is read (params.trim()) after the class was found and before
\* cls.addMethod: when the field is missing the read throws a TypeError
applyAddMethod(file, op) ==
    LET cls == GetDeclaration(file, "class", op.targetClass)
    IN  IF cls = 0 THEN Throw(file, ClassNotFound(op.targetClass))
        ELSE IF "parameters" \notin DOMAIN op
        THEN Throw(file, <<"Cannot", "read", "properties", "of", "undefined",
                           "(reading", "'trim')">>)
        ELSE Ok([file EXCEPT ![cls].methods =
                    Append(@, [name       |-> op.methodName,
                               returnType |-> op.returnType,
                               statements |-> op.body,
                               parameters |-> parseParameterString(op.parameters)])])

-----------------------------------------------------------------------------
(* rename *)

IsFileSymbol(st) == st.kind \in {"function", "class", "interface", "type-alias"}

RenameName(n, oldName, newName) == IF n = oldName THEN newName ELSE n

\* faulty variant of RenameSymbol: rewrites the declarations and leaves the
\* references to the symbol as they were
RenameDeclarationsOnly(file, oldName, newName) ==
    [k \in 1..Len(file) |->
        IF IsFileSymbol(file[k]) /\ file[k].name = oldName
        THEN [file[k] EXCEPT !.name = newName]
        ELSE file[k]]

\* node.rename(newName) on a top-level declaration: the language service
\* rewrites the name at every location of the symbol, which are the
\* declarations of that name at file scope and the references to it (in
\* other statements and in export { name } declarations)
RenameSymbol(file, oldName, newName) ==
    [k \in 1..Len(file) |->
        IF IsFileSymbol(file[k]) /\ file[k].name = oldName
        THEN [file[k] EXCEPT !.name = newName]
        ELSE IF file[k].kind = "other"
        THEN [file[k] EXCEPT !.refs =
                [j \in 1..Len(@) |-> RenameName(@[j], oldName, newName)]]
        ELSE IF file[k].kind = "export"
        THEN [file[k] EXCEPT !.namedExports =
                [j \in 1..Len(@) |-> RenameName(@[j], oldName, newName)]]
        ELSE file[k]]

\* method.rename / prop.rename inside a class: the member declarations of
\* that name in the class
RenameMember(file, cls, member, oldName, newName) ==
    [file EXCEPT ![cls][member] =
        [j \in 1..Len(@) |-> IF @[j].name = oldName
                             THEN [@[j] EXCEPT !.name = newName] ELSE @[j]]]

HasMember(members, name) == \E j \in 1..Len(members) : members[j].name = name

applyRename(file, op) ==
    IF Field(op, "scope", None) = "class" /\ Field(op, "targetClass", "") # ""
    THEN LET cls == GetDeclaration(file, "class", op.targetClass)
         IN  IF cls = 0 THEN Throw(file, ClassNotFound(op.targetClass))
             ELSE IF HasMember(file[cls].methods, op.oldName)
             THEN Ok(RenameMember(file, cls, "methods", op.oldName, op.newName))
             ELSE IF HasMember(file[cls].properties, op.oldName)
             THEN Ok(RenameMember(file, cls, "properties", op.oldName, op.newName))
             ELSE Throw(file, <<"Symbol", op.oldName, "not", "found", "in", "class",
                                op.targetClass>>)
    ELSE IF GetDeclaration(file, "function", op.oldName) # 0
    THEN Ok(RenameSymbol(file, op.oldName, op.newName))
    ELSE IF GetDeclaration(file, "class", op.oldName) # 0
    THEN Ok(RenameSymbol(file, op.oldName, op.newName))
    ELSE IF GetDeclaration(file, "interface", op.oldName) # 0
    THEN Ok(RenameSymbol(file, op.oldName, op.newName))
    ELSE IF GetDeclaration(file, "type-alias", op.oldName) # 0
    THEN Ok(RenameSymbol(file, op.oldName, op.newName))
    ELSE Throw(file, <<"Symbol", op.oldName, "not", "found", "at", "file", "scope">>)

-----------------------------------------------------------------------------
(* The switch of applyOperation *)

\* faulty variant of applyOperation: a wrap request is accepted and does nothing
applyOperationWrapNoOp(file, op) ==
    CASE op.type = "add-import"    -> applyAddImport(file, op)
      [] op.type = "remove-import" -> applyRemoveImport(file, op)
      [] op.type = "add-export"    -> applyAddExport(file, op)
      [] op.type = "add-property"  -> applyAddProperty(file, op)
      [] op.type = "add-method"    -> applyAddMethod(file, op)
      [] op.type = "rename"        -> applyRename(file, op)
      [] op.type = "wrap"          -> Ok(file)
      [] OTHER                     ->
            Throw(file, <<"Unknown", "transform", "type:", op.type>>)

\* faulty variant of applyOperation: the switch has no default branch
applyOperationNoDefault(file, op) ==
    CASE op.type = "add-import"    -> applyAddImport(file, op)
      [] op.type = "remove-import" -> applyRemoveImport(file, op)
      [] op.type = "add-export"    -> applyAddExport(file, op)
      [] op.type = "add-property"  -> applyAddProperty(file, op)
      [] op.type = "add-method"    -> applyAddMethod(file, op)
      [] op.type = "rename"        -> applyRename(file, op)
      [] op.type = "wrap"          ->
            Throw(file, <<"Wrap", "transform", "not", "yet", "implemented">>)
      [] OTHER                     -> Ok(file)

applyOperation(file, op) ==
    CASE op.type = "add-import"    -> applyAddImport(file, op)
      [] op.type = "remove-import" -> applyRemoveImport(file, op)
      [] op.type = "add-export"    -> applyAddExport(file, op)
      [] op.type = "add-property"  -> applyAddProperty(file, op)
      [] op.type = "add-method"    -> applyAddMethod(file, op)
      [] op.type = "rename"        -> applyRename(file, op)
      [] op.type = "wrap"          ->
            Throw(file, <<"Wrap", "transform", "not", "yet", "implemented">>)
      [] OTHER                     ->
            Throw(file, <<"Unknown", "transform", "type:", op.type>>)

-----------------------------------------------------------------------------
(* The source texts and operations the model draws its inputs from *)

Import(moduleSpecifier, namedImports, defaultImport, namespaceImport, isTypeOnly) ==
    [kind            |-> "import",
     moduleSpecifier |-> moduleSpecifier,
     namedImports    |-> namedImports,
     defaultImport   |-> defaultImport,
     namespaceImport |-> namespaceImport,
     isTypeOnly      |-> isTypeOnly]

Class(name, methods, properties) ==
    [kind |-> "class", name |-> name, methods |-> methods, properties |-> properties,
     isExported |-> FALSE, isDefault |-> FALSE]

Declaration(kind, name) ==
    [kind |-> kind, name |-> name, isExported |-> FALSE, isDefault |-> FALSE]

Other(refs) == [kind |-> "other", refs |-> refs]

Method(name) ==
    [name |-> name, returnType |-> "void", statements |-> "", parameters |-> <<>>]

Property(name) ==
    [name |-> name, type |-> "string", initializer |-> None, isReadonly |-> FALSE]

Texts ==
    { \* const x = 1;
      << Other(<<>>) >>,
      \* import { a } from 'm1'; class A {} ; const x = 1;
      << Import("m1", <<"a">>, None, None, FALSE), Class("A", <<>>, <<>>), Other(<<>>) >>,
      \* import d, { a, b } from 'm1'; class A { p; m() {} } function f() {} f(); new A();
      << Import("m1", <<"a", "b">>, "d", None, FALSE),
         Class("A", <<Method("m")>>, <<Property("p")>>),
         Declaration("function", "f"), Other(<<"f", "A">>) >>,
      \* import * as n from 'm1'; interface I {} type T = I;
      << Import("m1", <<>>, None, "n", FALSE),
         Declaration("interface", "I"), Declaration("type-alias", "T") >>,
      \* import d from 'm1'; import { a } from 'm1'; class B {}
      << Import("m1", <<>>, "d", None, FALSE), Import("m1", <<"a">>, None, None, FALSE),
         Class("B", <<>>, <<>>) >>,
      \* import { a } from 'm1'; import type { b } from 'm2'; function f() {}
      << Import("m1", <<"a">>, None, None, FALSE), Import("m2", <<"b">>, None, None, TRUE),
         Declaration("function", "f") >>,
      \* import 'm1'; class A {}
      << Import("m1", <<>>, None, None, FALSE), Class("A", <<>>, <<>>) >>,
      \* function f() {} interface f { } f();   (one symbol, two declarations)
      << Declaration("function", "f"), Declaration("interface", "f"), Other(<<"f">>) >> }

AddImportOps ==
    { [type |-> "add-import", moduleSpecifier |-> "m1", namedImports |-> <<"a">>],
      [type |-> "add-import", moduleSpecifier |-> "m1", namedImports |-> <<"b", "b">>],
      [type |-> "add-import", moduleSpecifier |-> "m1", namedImports |-> <<"a", "b">>],
      [type |-> "add-import", moduleSpecifier |-> "m1", defaultImport |-> "d"],
      [type |-> "add-import", moduleSpecifier |-> "m2", namedImports |-> <<"a">>],
      [type |-> "add-import", moduleSpecifier |-> "m2", namedImports |-> <<"b">>,
       defaultImport |-> "d", isTypeOnly |-> TRUE],
      [type |-> "add-import", moduleSpecifier |-> "m2", namespaceImport |-> "n"] }

RemoveImportOps ==
    { [type |-> "remove-import", moduleSpecifier |-> "m1"],
      [type |-> "remove-import", moduleSpecifier |-> "m1", namedImports |-> <<"a">>],
      [type |-> "remove-import", moduleSpecifier |-> "m1", namedImports |-> <<"a", "b">>],
      [type |-> "remove-import", moduleSpecifier |-> "m2"],
      [type |-> "remove-import", moduleSpecifier |-> "m2", namedImports |-> <<"b">>] }

AddExportOps ==
    { [type |-> "add-export", name |-> "A"],
      [type |-> "add-export", name |-> "B", isDefault |-> TRUE,
       declaration |-> Class("B", <<>>, <<>>)] }

AddPropertyOps ==
    { [type |-> "add-property", targetClass |-> "A", propertyName |-> "q",
       propertyType |-> "number", initializer |-> "0"],
      [type |-> "add-property", targetClass |-> "B", propertyName |-> "q",
       propertyType |-> "number", isReadonly |-> TRUE],
      [type |-> "add-property", targetClass |-> "Z", propertyName |-> "q",
       propertyType |-> "string"] }

AddMethodOps ==
    { [type |-> "add-method", targetClass |-> "A", methodName |-> "k",
       parameters |-> << <<"x", "string">>, <<"y">> >>, returnType |-> "string",
       body |-> "return x;"],
      [type |-> "add-method", targetClass |-> "B", methodName |-> "k",
       parameters |-> <<>>, returnType |-> "boolean", body |-> "return true;"],
      [type |-> "add-method", targetClass |-> "Z", methodName |-> "k",
       parameters |-> <<>>, returnType |-> "void", body |-> ""],
      \* a malformed request: the required parameters string is missing
      [type |-> "add-method", targetClass |-> "A", methodName |-> "k",
       returnType |-> "void", body |-> ""] }

RenameOps ==
    { [type |-> "rename", oldName |-> "A", newName |-> "B"],
      [type |-> "rename", oldName |-> "f", newName |-> "g", scope |-> "file"],
      [type |-> "rename", oldName |-> "I", newName |-> "J"],
      [type |-> "rename", oldName |-> "T", newName |-> "U"],
      [type |-> "rename", oldName |-> "Z", newName |-> "Y"],
      [type |-> "rename", oldName |-> "m", newName |-> "k", scope |-> "class",
       targetClass |-> "A"],
      [type |-> "rename", oldName |-> "p", newName |-> "q", scope |-> "class",
       targetClass |-> "A"] }

OtherOps ==
    { [type |-> "wrap", targetFunction |-> "f", wrapperTemplate |-> "try"],
      [type |-> "wrap"],
      [type |-> "frobnicate"] }

Operations ==
    AddImportOps \cup RemoveImportOps \cup AddExportOps \cup AddPropertyOps
        \cup AddMethodOps \cup RenameOps \cup OtherOps

\* the batches of at most n operations drawn from ops
Batches(ops, n) == UNION { [1..k -> ops] : k \in 0..n }

\* the analyzer has been given nothing
AnalyzerIdle ==
    /\ textA = <<>>
    /\ textB = <<>>
    /\ parsed = NoResult
    /\ report = NoResult
    /\ diff = NoResult
    /\ diffBack = NoResult

\* the printer has been given nothing
PrinterIdle ==
    /\ licenseText = ""
    /\ licenseHeader = ""
    /\ stamped = NoResult
    /\ importOptions = [moduleSpecifier |-> ""]
    /\ importStatement = NoResult

\* a TemplateEngine after construction: both maps are empty
NewEngine ==
    /\ definitions = <<>>
    /\ compiledCache = <<>>
    /\ registered = <<>>
    /\ rendered = NoCall
    /\ calls = 0

-----------------------------------------------------------------------------
(* transform *)

\* faulty variant of Enter: the failure list lives outside the function and is
\* never emptied
EnterKeepingFailures(src, ops) ==
    /\ text' = src
    /\ operations' = ops
    /\ sourceFile' = src
    /\ appliedCount' = 0
    /\ failures' = failures
    /\ i' = 1
    /\ pc' = "loop"
    /\ result' = NoResult
    /\ outcome' = "none"

\* transformer.ts:24-28: a fresh project and tree, zeroed locals
Enter(src, ops) ==
    /\ text' = src
    /\ operations' = ops
    /\ sourceFile' = src
    /\ appliedCount' = 0
    /\ failures' = <<>>
    /\ i' = 1
    /\ pc' = "loop"
    /\ result' = NoResult
    /\ outcome' = "none"

Init ==
    /\ text \in Texts
    /\ operations \in Batches(Operations, MaxOps)
    /\ sourceFile = text
    /\ appliedCount = 0
    /\ failures = <<>>
    /\ i = 1
    /\ pc = "loop"
    /\ result = NoResult
    /\ outcome = "none"
    /\ earlier = NoCall
    /\ AnalyzerIdle
    /\ PrinterIdle
    /\ NewEngine

\* faulty variant of Step: the first failure ends the loop (a throw that is caught
\* outside the for loop)
StepAbortsOnFailure ==
    /\ pc = "loop"
    /\ i <= Len(operations)
    /\ LET op == operations[i]
           r  == applyOperation(sourceFile, op)
       IN  /\ sourceFile' = r.file
           /\ IF r.threw
              THEN /\ failures' = Append(failures, [operation |-> op, message |-> r.message])
                   /\ i' = Len(operations) + 1
                   /\ outcome' = "failed"
                   /\ UNCHANGED appliedCount
              ELSE /\ appliedCount' = appliedCount + 1
                   /\ i' = i + 1
                   /\ outcome' = "applied"
                   /\ UNCHANGED failures
    /\ UNCHANGED <<text, operations, pc, result, earlier>>
    /\ UNCHANGED <<analyzerVars, printerVars, engineVars>>

\* faulty variant of Step: every operation is applied to a tree parsed afresh from
\* the original text, so that it sees nothing of the earlier operations
StepOnOriginalText ==
    /\ pc = "loop"
    /\ i <= Len(operations)
    /\ LET op == operations[i]
           r  == applyOperation(text, op)
       IN  /\ sourceFile' = r.file
           /\ IF r.threw
              THEN /\ failures' = Append(failures, [operation |-> op, message |-> r.message])
                   /\ outcome' = "failed"
                   /\ UNCHANGED appliedCount
              ELSE /\ appliedCount' = appliedCount + 1
                   /\ outcome' = "applied"
                   /\ UNCHANGED failures
    /\ i' = i + 1
    /\ UNCHANGED <<text, operations, pc, result, earlier>>
    /\ UNCHANGED <<analyzerVars, printerVars, engineVars>>

\* faulty variant of Step: appliedCount++ placed before the call, so that an
\* operation that throws is counted as applied too
StepCountsAttempts ==
    /\ pc = "loop"
    /\ i <= Len(operations)
    /\ LET op == operations[i]
           r  == applyOperation(sourceFile, op)
       IN  /\ sourceFile' = r.file
           /\ appliedCount' = appliedCount + 1
           /\ outcome' = IF r.threw THEN "failed" ELSE "applied"
           /\ IF r.threw
              THEN failures' = Append(failures, [operation |-> op, message |-> r.message])
              ELSE UNCHANGED failures
    /\ i' = i + 1
    /\ UNCHANGED <<text, operations, pc, result, earlier>>
    /\ UNCHANGED <<analyzerVars, printerVars, engineVars>>

\* faulty variant of Step: the catch block is missing, what applyOperation
\* throws leaves transform
StepRethrowing ==
    /\ pc = "loop"
    /\ i <= Len(operations)
    /\ LET op == operations[i]
           r  == applyOperation(sourceFile, op)
       IN  /\ sourceFile' = r.file
           /\ IF r.threw
              THEN /\ pc' = "thrown"
                   /\ outcome' = "failed"
                   /\ UNCHANGED <<appliedCount, i>>
              ELSE /\ appliedCount' = appliedCount + 1
                   /\ outcome' = "applied"
                   /\ i' = i + 1
                   /\ UNCHANGED pc
    /\ UNCHANGED <<text, operations, failures, result, earlier>>
    /\ UNCHANGED <<analyzerVars, printerVars, engineVars>>

\* faulty variant of Step: the catch block records a fixed text in place of
\* the message of what was thrown
StepLosingMessage ==
    /\ pc = "loop"
    /\ i <= Len(operations)
    /\ LET op == operations[i]
           r  == applyOperation(sourceFile, op)
       IN  /\ sourceFile' = r.file
           /\ IF r.threw
              THEN /\ failures' = Append(failures, [operation |-> op,
                                                    message   |-> <<"Operation", "failed">>])
                   /\ outcome' = "failed"
                   /\ UNCHANGED appliedCount
              ELSE /\ appliedCount' = appliedCount + 1
                   /\ outcome' = "applied"
                   /\ UNCHANGED failures
    /\ i' = i + 1
    /\ UNCHANGED <<text, operations, pc, result, earlier>>
    /\ UNCHANGED <<analyzerVars, printerVars, engineVars>>

\* one iteration of the for loop (transformer.ts:30-40)
Step ==
    /\ pc = "loop"
    /\ i <= Len(operations)
    /\ LET op == operations[i]
           r  == applyOperation(sourceFile, op)
       IN  /\ sourceFile' = r.file
           /\ IF r.threw
              THEN /\ failures' = Append(failures, [operation |-> op, message |-> r.message])
                   /\ outcome' = "failed"
                   /\ UNCHANGED appliedCount
              ELSE /\ appliedCount' = appliedCount + 1
                   /\ outcome' = "applied"
                   /\ UNCHANGED failures
    /\ i' = i + 1
    /\ UNCHANGED <<text, operations, pc, result, earlier>>
    /\ UNCHANGED <<analyzerVars, printerVars, engineVars>>

\* faulty variant of TransformResult: success reports that something was applied
TransformResultSuccessIfApplied(file, applied, failed) ==
    [returned         |-> TRUE,
     success          |-> applied > 0 \/ Len(failed) = 0,
     source           |-> file,
     appliedOperations |-> applied,
     failedOperations |-> failed]

\* the TransformResult built at transformer.ts:42-47
TransformResult(file, applied, failed) ==
    [returned         |-> TRUE,
     success          |-> Len(failed) = 0,
     source           |-> file,
     appliedOperations |-> applied,
     failedOperations |-> failed]

Return ==
    /\ pc = "loop"
    /\ i > Len(operations)
    /\ result' = TransformResult(sourceFile, appliedCount, failures)
    /\ pc' = "done"
    /\ UNCHANGED <<text, operations, i, sourceFile, appliedCount, failures, outcome,
                   earlier>>
    /\ UNCHANGED <<analyzerVars, printerVars, engineVars>>

Next == Step \/ Return

Spec == Init /\ [][Next]_vars

-----------------------------------------------------------------------------
(* Repeated calls: after a call has returned the caller calls transform    *)
(* again, with any text and batch.  The history variable earlier keeps the *)
(* inputs and the result of one earlier call, and whether a call with      *)
(* other inputs has returned since.                                        *)

CallTexts ==
    { << Other(<<>>) >>,
      << Import("m1", <<"a">>, None, None, FALSE), Class("A", <<>>, <<>>), Other(<<>>) >> }

CallOperations ==
    { [type |-> "add-import", moduleSpecifier |-> "m1", namedImports |-> <<"a", "b">>],
      [type |-> "remove-import", moduleSpecifier |-> "m1"],
      [type |-> "add-property", targetClass |-> "A", propertyName |-> "q",
       propertyType |-> "number", initializer |-> "0"],
      [type |-> "add-method", targetClass |-> "Z", methodName |-> "k",
       parameters |-> <<>>, returnType |-> "void", body |-> ""],
      [type |-> "wrap", targetFunction |-> "f", wrapperTemplate |-> "try"] }

InitCalls ==
    /\ text \in CallTexts
    /\ operations \in Batches(CallOperations, MaxCallOps)
    /\ sourceFile = text
    /\ appliedCount = 0
    /\ failures = <<>>
    /\ i = 1
    /\ pc = "loop"
    /\ result = NoResult
    /\ outcome = "none"
    /\ earlier = NoCall
    /\ AnalyzerIdle
    /\ PrinterIdle
    /\ NewEngine

SameInputs == earlier.called /\ earlier.text = text /\ earlier.operations = operations

\* the next call of transform, after the current one has returned
Call ==
    /\ pc = "done"
    /\ \E src \in CallTexts, ops \in Batches(CallOperations, MaxCallOps) : Enter(src, ops)
    /\ \E keep \in BOOLEAN :
          earlier' =
            IF earlier.called
            THEN [earlier EXCEPT !.between = @ \/ ~SameInputs]
            ELSE IF keep
            THEN [called |-> TRUE, text |-> text, operations |-> operations,
                  result |-> result, between |-> FALSE]
            ELSE earlier
    /\ UNCHANGED <<analyzerVars, printerVars, engineVars>>

NextCalls == Step \/ Return \/ Call

SpecCalls == InitCalls /\ [][NextCalls]_vars

-----------------------------------------------------------------------------
(* Reference folds used by the properties: what a batch should come to,    *)
(* computed operation by operation from the text                           *)

\* the tree after the operations of ops that succeed in their turn, a
\* failing operation being skipped
RECURSIVE SucceededOnly(_, _)
SucceededOnly(file, ops) ==
    IF ops = <<>> THEN file
    ELSE LET r == applyOperation(file, Head(ops))
         IN  SucceededOnly(IF r.threw THEN file ELSE r.file, Tail(ops))

\* how many operations of ops succeed in their turn
RECURSIVE SucceededCount(_, _)
SucceededCount(file, ops) ==
    IF ops = <<>> THEN 0
    ELSE LET r == applyOperation(file, Head(ops))
         IN  (IF r.threw THEN 0 ELSE 1)
                + SucceededCount(IF r.threw THEN file ELSE r.file, Tail(ops))

Done == pc = "done"

-----------------------------------------------------------------------------
(* C1: a failing operation neither stops the operations after it from      *)
(* being attempted nor undoes the operations before it: when transform     *)
(* returns, every operation has been attempted, the returned source is the *)
(* text with every operation that succeeded in its turn applied (those     *)
(* before and those after a failure), the applied count is their number;   *)
(* and for [validOp, invalidOp] the result has appliedOperations = 1, one  *)
(* failure entry, success = false and validOp's effect in the source.      *)
C1_PartialFailure ==
    Done =>
        /\ i = Len(operations) + 1
        /\ result.source = SucceededOnly(text, operations)
        /\ result.appliedOperations = SucceededCount(text, operations)
        /\ Len(result.failedOperations) = Len(operations) - SucceededCount(text, operations)
        /\ \A k \in 1..Len(result.failedOperations) :
              InSeq(result.failedOperations[k].operation, operations)
        /\ (/\ Len(operations) = 2
            /\ ~applyOperation(text, operations[1]).threw
            /\ applyOperation(applyOperation(text, operations[1]).file, operations[2]).threw)
           => /\ result.appliedOperations = 1
              /\ Len(result.failedOperations) = 1
              /\ result.failedOperations[1].operation = operations[2]
              /\ result.success = FALSE
              /\ result.source = applyOperation(text, operations[1]).file

\* a returned batch whose first operation failed and whose last operation
\* succeeded and changed the text
C1_Witness ==
    /\ Done
    /\ Len(operations) >= 2
    /\ applyOperation(text, operations[1]).threw
    /\ result.appliedOperations >= 1
    /\ Len(result.failedOperations) >= 1
    /\ result.source # text

-----------------------------------------------------------------------------
(* C2: in every transform result, appliedOperations plus the number of     *)
(* failure entries equals the number of operations requested.              *)
C2_CountsAddUp ==
    Done => result.appliedOperations + Len(result.failedOperations) = Len(operations)

\* a result with both applied and failed operations
C2_Witness ==
    /\ Done
    /\ result.appliedOperations >= 1
    /\ Len(result.failedOperations) >= 1

-----------------------------------------------------------------------------
(* C3: in every transform result, success is true if and only if           *)
(* failedOperations is empty.                                              *)
C3_SuccessIffNoFailures ==
    result.returned => (result.success <=> result.failedOperations = <<>>)

\* a result that applied an operation and is still not a success, because
\* another operation failed
C3_Witness ==
    /\ result.returned
    /\ ~result.success
    /\ result.appliedOperations >= 1
    /\ result.failedOperations # <<>>

-----------------------------------------------------------------------------
(* C4: the operations are applied strictly in input order against one      *)
(* working text, each seeing the effects of the earlier ones.              *)

\* the tree after applying ops one after the other, left to right
RECURSIVE ApplyInOrder(_, _)
ApplyInOrder(file, ops) ==
    IF ops = <<>> THEN file
    ELSE ApplyInOrder(applyOperation(file, Head(ops)).file, Tail(ops))

\* the tree the operation at position k of the batch is applied to
TreeBefore(k) == ApplyInOrder(text, SubSeq(operations, 1, k - 1))

\* the operation the loop has just processed, and the one before it
JustProcessed == operations[i - 1]
ProcessedBefore == operations[i - 2]

IsFileScoped(op) ==
    ~(Field(op, "scope", None) = "class" /\ Field(op, "targetClass", "") # "")

\* the operation before the one just processed was a file-scoped rename that
\* succeeded by renaming a class (no function of that name came first)
JustAfterClassRename ==
    /\ i >= 3
    /\ ProcessedBefore.type = "rename"
    /\ IsFileScoped(ProcessedBefore)
    /\ ProcessedBefore.oldName # ProcessedBefore.newName
    /\ GetDeclaration(TreeBefore(i - 2), "function", ProcessedBefore.oldName) = 0
    /\ GetDeclaration(TreeBefore(i - 2), "class", ProcessedBefore.oldName) # 0

IsWellFormedMemberOp(op) ==
    \/ op.type = "add-property"
    \/ op.type = "add-method" /\ "parameters" \in DOMAIN op

\* the working tree is, at every point of the loop, the text with the
\* operations processed so far applied in input order
C4_InOrder ==
    /\ sourceFile = TreeBefore(i)
    /\ Done => result.source = ApplyInOrder(text, operations)

\* directly after a successful file-scoped rename of class A to B, an
\* add-method or add-property targeting A fails with class not found and a
\* (well-formed) one targeting B succeeds
C4_RenameThenMember ==
    (JustAfterClassRename /\ IsWellFormedMemberOp(JustProcessed)) =>
        /\ JustProcessed.targetClass = ProcessedBefore.oldName =>
              /\ outcome = "failed"
              /\ failures[Len(failures)] =
                    [operation |-> JustProcessed,
                     message   |-> ClassNotFound(ProcessedBefore.oldName)]
        /\ JustProcessed.targetClass = ProcessedBefore.newName =>
              outcome = "applied"

\* the loop has just processed an add-import directly followed by a
\* remove-import of the same module
JustAddedThenRemoved ==
    /\ i >= 3
    /\ ProcessedBefore.type = "add-import"
    /\ JustProcessed.type = "remove-import"
    /\ JustProcessed.moduleSpecifier = ProcessedBefore.moduleSpecifier

RemovesWholeImport(op) ==
    "namedImports" \notin DOMAIN op \/ Len(op.namedImports) = 0

\* C4 as claimed: whatever the text, an add-import followed by a
\* remove-import of the same module (read in its favour: one that names no
\* bindings, so that it removes an import outright) leaves no import of
\* that module
C4_Original ==
    /\ C4_InOrder
    /\ C4_RenameThenMember
    /\ (JustAddedThenRemoved /\ RemovesWholeImport(JustProcessed)) =>
          ImportsOf(sourceFile, JustProcessed.moduleSpecifier) = {}

\* C4 as amended: the operations are applied in input order against one
\* working tree; directly after a successful file-scoped rename of class A
\* to B an add-method or add-property targeting A fails with class not
\* found while a well-formed one targeting B succeeds; and an add-import
\* directly followed by a remove-import of the same module that names no
\* bindings leaves no import of that module when the text held at most one
\* import of that module before the two operations (remove-import removes
\* only the first import of the module).
C4_InOrderAmended ==
    /\ C4_InOrder
    /\ C4_RenameThenMember
    /\ (/\ JustAddedThenRemoved
        /\ RemovesWholeImport(JustProcessed)
        /\ Cardinality(ImportsOf(TreeBefore(i - 2), JustProcessed.moduleSpecifier)) <= 1)
       => ImportsOf(sourceFile, JustProcessed.moduleSpecifier) = {}

\* a class was renamed and the next operation, targeting the old name, failed
C4_Witness ==
    /\ JustAfterClassRename
    /\ IsWellFormedMemberOp(JustProcessed)
    /\ JustProcessed.targetClass = ProcessedBefore.oldName
    /\ outcome = "failed"

-----------------------------------------------------------------------------
(* C5: transform carries no state between calls: a call whose inputs are   *)
(* identical to those of an earlier call returns the identical source and  *)
(* the identical failure list (and counts), whatever calls were made in    *)
(* between.                                                                *)
C5_Deterministic ==
    (Done /\ SameInputs) =>
        /\ result.source = earlier.result.source
        /\ result.failedOperations = earlier.result.failedOperations
        /\ result = earlier.result

\* the same inputs were given again after a call with other inputs, and the
\* batch recorded a failure
C5_Witness ==
    /\ Done
    /\ SameInputs
    /\ earlier.between
    /\ result.failedOperations # <<>>

-----------------------------------------------------------------------------
(* C6: two add-import operations on distinct module specifiers, in either  *)
(* order.                                                                  *)

IsAddImportPair(ops) ==
    /\ Len(ops) = 2
    /\ ops[1].type = "add-import"
    /\ ops[2].type = "add-import"
    /\ ops[1].moduleSpecifier # ops[2].moduleSpecifier

Swapped(ops) == <<ops[2], ops[1]>>

NotImport(st) == ~IsImport(st)

\* C6 as claimed: transform(text, [A, B]).source is identical to
\* transform(text, [B, A]).source
C6_Original ==
    (Done /\ IsAddImportPair(operations)) =>
        result.source = ApplyInOrder(text, Swapped(operations))

\* C6 as amended: transform(text, [A, B]).source and
\* transform(text, [B, A]).source hold the same statements (the same import
\* declarations, each as often, and the same other statements in the same
\* order) and are identical when the text already imports at least one of
\* the two modules; when it imports neither, each source holds the two new
\* imports in the order of its own operation list, so the two sources
\* differ in the order of these two imports.
C6_SameImportsAnyOrder ==
    (Done /\ IsAddImportPair(operations)) =>
        LET other == ApplyInOrder(text, Swapped(operations))
            mA == operations[1].moduleSpecifier
            mB == operations[2].moduleSpecifier
        IN  /\ SelectSeq(result.source, NotImport) = SelectSeq(other, NotImport)
            /\ Len(result.source) = Len(other)
            /\ \A k \in 1..Len(other) :
                  Count(other[k], result.source) = Count(other[k], other)
            /\ (GetImportDeclaration(text, mA) # 0 \/ GetImportDeclaration(text, mB) # 0)
                  => result.source = other
            /\ (GetImportDeclaration(text, mA) = 0 /\ GetImportDeclaration(text, mB) = 0)
                  => /\ GetImportDeclaration(result.source, mA)
                            < GetImportDeclaration(result.source, mB)
                     /\ GetImportDeclaration(other, mB) < GetImportDeclaration(other, mA)
                     /\ result.source # other

\* two add-imports of modules the text does not import have returned
C6_Witness ==
    /\ Done
    /\ IsAddImportPair(operations)
    /\ GetImportDeclaration(text, operations[1].moduleSpecifier) = 0
    /\ GetImportDeclaration(text, operations[2].moduleSpecifier) = 0
    /\ result.appliedOperations = 2

-----------------------------------------------------------------------------
(* C7: an add-property or add-method whose targetClass names no class in   *)
(* the current text fails: the iteration pushes a failure entry for that   *)
(* operation whose message contains "not found", counts nothing as applied *)
(* and leaves the tree untouched (no member is added anywhere); and the    *)
(* result then returned has success = false and holds that entry.          *)

AtOperation == pc = "loop" /\ i <= Len(operations)

IsMemberOp(op) == op.type \in {"add-property", "add-method"}

IsClassNotFoundEntry(e) ==
    /\ IsMemberOp(e.operation)
    /\ e.message = ClassNotFound(e.operation.targetClass)

-----------------------------------------------------------------------------
(* add-import and remove-import, one iteration at a time *)

\* the loop is at an operation of the given type
AtOp(type) == AtOperation /\ operations[i].type = type

\* the iteration completed its try block: counted as applied, no failure
Applied == appliedCount' = appliedCount + 1 /\ failures' = failures

Names(s) == {s[k] : k \in 1..Len(s)}

\* the named bindings requested by an import operation ([] when left out)
Requested(op) == Field(op, "namedImports", <<>>)

-----------------------------------------------------------------------------
(* C8: add-import on a module specifier that already has an import never   *)
(* adds a second import statement for that specifier; it adds to the       *)
(* existing import exactly the requested named bindings that were not      *)
(* already present, each once, whatever the requested list (also one that  *)
(* repeats a name or names only bindings already imported), and leaves the *)
(* bindings that were present as they were.                                *)
C8_MergeWithoutDuplicates ==
    [][ (/\ AtOp("add-import")
         /\ GetImportDeclaration(sourceFile, operations[i].moduleSpecifier) # 0)
        => LET m   == operations[i].moduleSpecifier
               k   == GetImportDeclaration(sourceFile, m)
               old == sourceFile[k].namedImports
               new == sourceFile'[k].namedImports
               req == Requested(operations[i])
           IN  /\ Len(sourceFile') = Len(sourceFile)
               /\ ImportsOf(sourceFile', m) = ImportsOf(sourceFile, m)
               /\ \A j \in 1..Len(sourceFile) : j # k => sourceFile'[j] = sourceFile[j]
               /\ \A n \in Names(old) \cup Names(new) \cup Names(req) :
                     Count(n, new) = IF InSeq(n, old) THEN Count(n, old) ELSE
                                     IF InSeq(n, req) THEN 1 ELSE 0
      ]_vars

-----------------------------------------------------------------------------
(* C9: add-import on a module specifier with no existing import *)

\* the iteration inserted exactly one statement, at position k, and left
\* every other statement as it was
InsertedAt(k) ==
    /\ Len(sourceFile') = Len(sourceFile) + 1
    /\ k \in 1..Len(sourceFile')
    /\ RemoveAt(sourceFile', k) = sourceFile

\* what C9 takes for granted and the code does: the operation succeeds and
\* inserts exactly one import of the module, with the requested named and
\* default bindings and the requested type-only flag (false when left out)
NewImportCarriesRequest(op) ==
    /\ Applied
    /\ Cardinality(ImportsOf(sourceFile', op.moduleSpecifier)) = 1
    /\ LET k == GetImportDeclaration(sourceFile', op.moduleSpecifier)
       IN  /\ InsertedAt(k)
           /\ sourceFile'[k].namedImports = Requested(op)
           /\ sourceFile'[k].defaultImport = Field(op, "defaultImport", None)
           /\ sourceFile'[k].isTypeOnly = Field(op, "isTypeOnly", FALSE)

\* C9 as claimed: the new import carries every requested binding, named,
\* default and namespace, and the type-only flag
C9_Original ==
    [][ (/\ AtOp("add-import")
         /\ GetImportDeclaration(sourceFile, operations[i].moduleSpecifier) = 0)
        => /\ NewImportCarriesRequest(operations[i])
           /\ sourceFile'[GetImportDeclaration(sourceFile', operations[i].moduleSpecifier)]
                 .namespaceImport = Field(operations[i], "namespaceImport", None)
      ]_vars

\* C9 as amended: add-import on a module specifier with no existing import
\* succeeds (counted in appliedOperations) and inserts exactly one new
\* import statement for that specifier carrying every requested named and
\* default binding and the requested type-only flag; it never carries a
\* namespace binding: an add-import request has no namespace field, and one
\* supplied all the same is ignored.
C9_NewImport ==
    [][ (/\ AtOp("add-import")
         /\ GetImportDeclaration(sourceFile, operations[i].moduleSpecifier) = 0)
        => /\ NewImportCarriesRequest(operations[i])
           /\ sourceFile'[GetImportDeclaration(sourceFile', operations[i].moduleSpecifier)]
                 .namespaceImport = None
      ]_vars

\* an add-import with a named binding, a default binding and the type-only
\* flag has just been applied to a text that did not import its module
C9_Witness ==
    /\ i >= 2
    /\ JustProcessed.type = "add-import"
    /\ GetImportDeclaration(TreeBefore(i - 1), JustProcessed.moduleSpecifier) = 0
    /\ Requested(JustProcessed) # <<>>
    /\ "defaultImport" \in DOMAIN JustProcessed
    /\ Field(JustProcessed, "isTypeOnly", FALSE)
    /\ outcome = "applied"
    /\ GetImportDeclaration(sourceFile, JustProcessed.moduleSpecifier) # 0

-----------------------------------------------------------------------------
(* C10: remove-import with named bindings specified removes only those     *)
(* named bindings from the import of the given module and keeps its other  *)
(* bindings; the import statement as a whole is removed exactly when it is *)
(* then left with no named bindings and no default binding; with no named  *)
(* bindings specified the entire import is removed.                        *)
C10_RemoveImport ==
    [][ (/\ AtOp("remove-import")
         /\ GetImportDeclaration(sourceFile, operations[i].moduleSpecifier) # 0)
        => LET k    == GetImportDeclaration(sourceFile, operations[i].moduleSpecifier)
               req  == Requested(operations[i])
               Kept(n) == ~InSeq(n, req)
               left == SelectSeq(sourceFile[k].namedImports, Kept)
           IN  /\ Applied
               /\ IF req = <<>>
                  THEN sourceFile' = RemoveAt(sourceFile, k)
                  ELSE IF left = <<>> /\ sourceFile[k].defaultImport = None
                  THEN sourceFile' = RemoveAt(sourceFile, k)
                  ELSE sourceFile' = [sourceFile EXCEPT ![k].namedImports = left]
      ]_vars

-----------------------------------------------------------------------------
(* C11: file-scoped rename *)

\* the kinds a file-scoped rename tries, in the order it tries them
RenameKinds == <<"function", "class", "interface", "type-alias">>

\* the first kind, in that order, that has a top-level declaration of name
\* in file (0 when none has)
FirstMatchingKind(file, name) ==
    IF \E n \in 1..Len(RenameKinds) : GetDeclaration(file, RenameKinds[n], name) # 0
    THEN RenameKinds[CHOOSE n \in 1..Len(RenameKinds) :
            /\ GetDeclaration(file, RenameKinds[n], name) # 0
            /\ \A m \in 1..(n - 1) : GetDeclaration(file, RenameKinds[m], name) = 0]
    ELSE None

\* every reference to oldName in the unit now reads newName, and nothing
\* else in the referring statements changed
ReferencesRewritten(oldName, newName) ==
    \A k \in 1..Len(sourceFile) :
        /\ sourceFile[k].kind = "other" =>
              /\ sourceFile'[k].kind = "other"
              /\ Len(sourceFile'[k].refs) = Len(sourceFile[k].refs)
              /\ \A j \in 1..Len(sourceFile[k].refs) :
                    sourceFile'[k].refs[j] =
                        IF sourceFile[k].refs[j] = oldName THEN newName
                        ELSE sourceFile[k].refs[j]
        /\ sourceFile[k].kind = "export" =>
              /\ sourceFile'[k].kind = "export"
              /\ Len(sourceFile'[k].namedExports) = Len(sourceFile[k].namedExports)
              /\ \A j \in 1..Len(sourceFile[k].namedExports) :
                    sourceFile'[k].namedExports[j] =
                        IF sourceFile[k].namedExports[j] = oldName THEN newName
                        ELSE sourceFile[k].namedExports[j]
        /\ sourceFile[k].kind = "import" => sourceFile'[k] = sourceFile[k]

\* what C11 says of a request that matches nothing: it fails with one more
\* failure entry and renames nothing
RenameMissFails ==
    /\ appliedCount' = appliedCount
    /\ Len(failures') = Len(failures) + 1
    /\ failures'[Len(failures')].operation = operations[i]
    /\ Mentions(failures'[Len(failures')].message, <<"not", "found">>)
    /\ sourceFile' = sourceFile

\* C11 as claimed: only the declaration of the first matching kind is
\* renamed (a declaration of the same name of another kind keeps its name),
\* with every reference; a request that matches nothing fails
C11_Original ==
    [][ (AtOp("rename") /\ IsFileScoped(operations[i]))
        => LET op   == operations[i]
               kind == FirstMatchingKind(sourceFile, op.oldName)
           IN  IF kind = None THEN RenameMissFails
               ELSE /\ Applied
                    /\ Len(sourceFile') = Len(sourceFile)
                    /\ ReferencesRewritten(op.oldName, op.newName)
                    /\ \A k \in 1..Len(sourceFile) :
                          IsFileSymbol(sourceFile[k]) =>
                            sourceFile'[k] =
                              IF sourceFile[k].name = op.oldName /\ sourceFile[k].kind = kind
                              THEN [sourceFile[k] EXCEPT !.name = op.newName]
                              ELSE sourceFile[k]
      ]_vars

\* C11 as amended: a file-scoped rename (the default scope) looks for a
\* top-level symbol named exactly oldName in the order function, class,
\* interface, type alias and renames the symbol of the first kind that
\* matches: the name of every top-level declaration of that symbol (a
\* function and an interface of one name are one symbol) and every reference
\* to it in the unit are rewritten; if no function, class, interface or type
\* alias has that name, the operation fails with a failure entry and renames
\* nothing.
C11_RenameSymbol ==
    [][ (AtOp("rename") /\ IsFileScoped(operations[i]))
        => LET op   == operations[i]
               kind == FirstMatchingKind(sourceFile, op.oldName)
           IN  IF kind = None THEN RenameMissFails
               ELSE /\ Applied
                    /\ Len(sourceFile') = Len(sourceFile)
                    /\ ReferencesRewritten(op.oldName, op.newName)
                    /\ \A k \in 1..Len(sourceFile) :
                          IsFileSymbol(sourceFile[k]) =>
                            sourceFile'[k] =
                              IF sourceFile[k].name = op.oldName
                              THEN [sourceFile[k] EXCEPT !.name = op.newName]
                              ELSE sourceFile[k]
      ]_vars

\* a file-scoped rename has just been applied to a text that declares the
\* old name twice and refers to it, and the new name is in place
C11_Witness ==
    /\ i >= 2
    /\ JustProcessed.type = "rename"
    /\ IsFileScoped(JustProcessed)
    /\ outcome = "applied"
    /\ LET before == TreeBefore(i - 1)
       IN  /\ Cardinality({k \in 1..Len(before) :
                  IsFileSymbol(before[k]) /\ before[k].name = JustProcessed.oldName}) = 2
           /\ \E k \in 1..Len(before) :
                  before[k].kind = "other" /\ InSeq(JustProcessed.oldName, before[k].refs)
           /\ \E k \in 1..Len(sourceFile) :
                  sourceFile[k].kind = "other" /\ InSeq(JustProcessed.newName, sourceFile[k].refs)

-----------------------------------------------------------------------------
(* wrap requests, unknown kinds and what leaves transform *)

\* the iteration ended in the catch block: nothing more counted as applied,
\* one failure entry appended for the operation at hand
Failed ==
    /\ appliedCount' = appliedCount
    /\ Len(failures') = Len(failures) + 1
    /\ SubSeq(failures', 1, Len(failures)) = failures
    /\ failures'[Len(failures')].operation = operations[i]

\* the message of the entry the iteration appended
NewMessage == failures'[Len(failures')].message

\* the loop goes on to the next operation of the same batch
GoesOn == pc' = "loop" /\ i' = i + 1 /\ operations' = operations

\* C12: every wrap operation fails, whatever its fields and whatever the
\* text: the iteration records it in failedOperations with a "not yet
\* implemented" message, does not count it in appliedOperations and changes
\* nothing in the source.
C12_WrapFails ==
    [][ AtOp("wrap")
        => /\ Failed
           /\ Mentions(NewMessage, <<"not", "yet", "implemented">>)
           /\ sourceFile' = sourceFile
      ]_vars

\* a wrap naming a function the text declares has just failed, after an
\* earlier operation of the batch was applied
C12_Witness ==
    /\ i >= 3
    /\ JustProcessed.type = "wrap"
    /\ "targetFunction" \in DOMAIN JustProcessed
    /\ GetDeclaration(sourceFile, "function", JustProcessed.targetFunction) # 0
    /\ outcome = "failed"
    /\ appliedCount = 1
    /\ Mentions(failures[Len(failures)].message, <<"not", "yet", "implemented">>)

-----------------------------------------------------------------------------
(* C13: operations of an unknown kind *)

KnownTypes ==
    {"add-import", "remove-import", "add-export", "add-property", "add-method",
     "rename", "wrap"}

AtUnknownOp == AtOperation /\ operations[i].type \notin KnownTypes

\* a word of a message in lower case and without its punctuation
Plain(w) ==
    CASE w = "Unknown" -> "unknown"
      [] w = "Wrap"    -> "wrap"
      [] w = "Class"   -> "class"
      [] w = "Symbol"  -> "symbol"
      [] w = "type:"   -> "type"
      [] OTHER         -> w

PlainMessage(msg) == [k \in 1..Len(msg) |-> Plain(msg[k])]

\* C13 as claimed: the entry's message says "unknown operation type"
\* (whatever the case and the punctuation)
C13_Original ==
    [][ AtUnknownOp
        => /\ Failed
           /\ GoesOn
           /\ Mentions(PlainMessage(NewMessage), <<"unknown", "operation", "type">>)
      ]_vars

\* C13 as amended: an operation whose type is not one of the seven known
\* kinds does not make transform throw: it produces a failure entry whose
\* message is "Unknown transform type: " followed by the type, changes
\* nothing in the source, and the remaining operations of the batch are
\* still processed.
C13_UnknownKindFails ==
    [][ AtUnknownOp
        => /\ Failed
           /\ GoesOn
           /\ NewMessage = <<"Unknown", "transform", "type:", operations[i].type>>
           /\ sourceFile' = sourceFile
      ]_vars

\* an operation of an unknown kind failed and the operation after it was
\* applied
C13_Witness ==
    /\ i >= 3
    /\ ProcessedBefore.type \notin KnownTypes
    /\ Len(failures) = 1
    /\ failures[1].operation = ProcessedBefore
    /\ Mentions(failures[1].message, <<"Unknown", "transform", "type:">>)
    /\ outcome = "applied"
    /\ sourceFile # text

-----------------------------------------------------------------------------
(* C14: what transform throws to its caller *)

\* the fields the operation types declare without a question mark
RequiredFields(type) ==
    CASE type = "add-import"    -> {"type", "moduleSpecifier"}
      [] type = "remove-import" -> {"type", "moduleSpecifier"}
      [] type = "add-export"    -> {"type", "name"}
      [] type = "add-property"  -> {"type", "targetClass", "propertyName", "propertyType"}
      [] type = "add-method"    ->
            {"type", "targetClass", "methodName", "parameters", "returnType", "body"}
      [] type = "rename"        -> {"type", "oldName", "newName"}
      [] type = "wrap"          -> {"type", "targetFunction", "wrapperTemplate"}
      [] OTHER                  -> {"type"}

IsWellFormed(op) == RequiredFields(op.type) \subseteq DOMAIN op

\* the domain-level misses: the class an operation names is not declared,
\* the symbol or member a rename names is not declared
MissesClass(file, op) ==
    /\ \/ IsMemberOp(op)
       \/ op.type = "rename" /\ ~IsFileScoped(op)
    /\ GetDeclaration(file, "class", op.targetClass) = 0

MissesSymbol(file, op) ==
    /\ op.type = "rename"
    /\ IF IsFileScoped(op)
       THEN FirstMatchingKind(file, op.oldName) = None
       ELSE LET cls == GetDeclaration(file, "class", op.targetClass)
            IN  /\ cls # 0
                /\ ~HasMember(file[cls].methods, op.oldName)
                /\ ~HasMember(file[cls].properties, op.oldName)

\* what C14 says of well-formed operations: each domain-level miss ends the
\* iteration in a failure entry whose message tells the three sorts apart,
\* and the call goes on
MissesAreCollected ==
    LET op == operations[i]
    IN  /\ (MissesClass(sourceFile, op) \/ MissesSymbol(sourceFile, op))
            => Failed /\ GoesOn /\ Mentions(NewMessage, <<"not", "found">>)
        /\ op.type = "wrap"
            => Failed /\ GoesOn /\ Mentions(NewMessage, <<"not", "yet", "implemented">>)
        /\ op.type \notin KnownTypes
            => Failed /\ GoesOn /\ Mentions(NewMessage, <<"Unknown">>)

\* the call returns normally: the result is a TransformResult whose failure
\* entries each hold the operation and a message
ReturnsNormally ==
    pc' = "done" =>
        /\ result'.returned
        /\ \A k \in 1..Len(result'.failedOperations) :
              DOMAIN result'.failedOperations[k] = {"operation", "message"}

-----------------------------------------------------------------------------
(* The parser (src/src/ast/printer.ts:170-478) and the analyzer            *)
(* (src/src/ast/analyzer.ts).                                              *)
(*                                                                         *)
(* A text given to the parser is again the sequence of its top-level       *)
(* statements, now with what the parser reads from them: doc comments      *)
(* (jsDocs, the description text of each), the number of lines a statement *)
(* spans, its members, and its descendant syntax nodes (body, flattened in *)
(* traversal order).  Names, type texts and descriptions are strings.      *)

\* String.prototype.includes
Includes(str, part) ==
    \E k \in 0..(Len(str) - Len(part)) : SubSeq(str, k + 1, k + Len(part)) = part

\* String.prototype.trim (the descriptions here hold no other white space
\* than blanks)
RECURSIVE Trim(_)
Trim(str) ==
    IF Len(str) > 0 /\ SubSeq(str, 1, 1) = " " THEN Trim(SubSeq(str, 2, Len(str)))
    ELSE IF Len(str) > 0 /\ SubSeq(str, Len(str), Len(str)) = " "
    THEN Trim(SubSeq(str, 1, Len(str) - 1))
    ELSE str

\* /^[A-Z]/.test(name)
StartsUpperCase(name) ==
    /\ Len(name) > 0
    /\ SubSeq(name, 1, 1) \in
          {"A", "B", "C", "D", "E", "F", "G", "H", "I", "J", "K", "L", "M",
           "N", "O", "P", "Q", "R", "S", "T", "U", "V", "W", "X", "Y", "Z"}

\* Array.prototype.join
RECURSIVE Join(_, _)
Join(strs, sep) ==
    IF strs = <<>> THEN ""
    ELSE IF Len(strs) = 1 THEN strs[1]
    ELSE strs[1] \o sep \o Join(Tail(strs), sep)

\* the elements of s that satisfy Test, counted
CountIf(s, Test(_)) == Cardinality({k \in 1..Len(s) : Test(s[k])})

\* the sequences of s, one after the other
RECURSIVE Flatten(_)
Flatten(s) == IF s = <<>> THEN <<>> ELSE Head(s) \o Flatten(Tail(s))

RECURSIVE Sum(_)
Sum(s) == IF s = <<>> THEN 0 ELSE Head(s) + Sum(Tail(s))

\* a record with some of its fields replaced
With(st, fields) == fields @@ st

-----------------------------------------------------------------------------
(* Statements as the parser sees them *)

FunctionDeclaration(name) ==
    [kind |-> "function", name |-> name, isExported |-> FALSE, isDefault |-> FALSE,
     jsDocs |-> <<>>, isAsync |-> FALSE, isGenerator |-> FALSE, parameters |-> <<>>,
     returnType |-> "void", body |-> <<>>, lines |-> 1]

ClassDeclaration(name) ==
    [kind |-> "class", name |-> name, isExported |-> FALSE, isDefault |-> FALSE,
     jsDocs |-> <<>>, isAbstract |-> FALSE, extends |-> None, implements |-> <<>>,
     methods |-> <<>>, properties |-> <<>>, body |-> <<>>, lines |-> 1]

InterfaceDeclaration(name) ==
    [kind |-> "interface", name |-> name, isExported |-> FALSE, isDefault |-> FALSE,
     jsDocs |-> <<>>, extends |-> <<>>, methods |-> <<>>, properties |-> <<>>,
     body |-> <<>>, lines |-> 1]

TypeAliasDeclaration(name, type) ==
    [kind |-> "type-alias", name |-> name, isExported |-> FALSE, isDefault |-> FALSE,
     jsDocs |-> <<>>, type |-> type, body |-> <<>>, lines |-> 1]

EnumDeclaration(name, members) ==
    [kind |-> "enum", name |-> name, isExported |-> FALSE, isDefault |-> FALSE,
     jsDocs |-> <<>>, members |-> members, isConst |-> FALSE, body |-> <<>>,
     lines |-> 1]

\* const x = ..., y = ...;   declarations are records of name and type text
VariableStatement(declarationKind, declarations) ==
    [kind |-> "variable-statement", declarationKind |-> declarationKind,
     declarations |-> declarations, isExported |-> FALSE, isDefault |-> FALSE,
     jsDocs |-> <<>>, body |-> <<>>, lines |-> 1]

ImportDeclaration(moduleSpecifier, namedImports) ==
    With(Import(moduleSpecifier, namedImports, None, None, FALSE),
         [isExported |-> FALSE, isDefault |-> FALSE, jsDocs |-> <<>>, body |-> <<>>,
          lines |-> 1])

\* export { a, b };   export { a } from 'm';
ExportDeclaration(namedExports, moduleSpecifier) ==
    [kind |-> "export", namedExports |-> namedExports, isTypeOnly |-> FALSE,
     moduleSpecifier |-> moduleSpecifier, isExported |-> FALSE, isDefault |-> FALSE,
     jsDocs |-> <<>>, body |-> <<>>, lines |-> 1]

\* export default expr;   export = expr;
ExportAssignment(isExportEquals) ==
    [kind |-> "export-assignment", isExportEquals |-> isExportEquals,
     isExported |-> FALSE, isDefault |-> FALSE, jsDocs |-> <<>>, body |-> <<>>,
     lines |-> 1]

\* namespace N { }: a declaration the parser does not look for
NamespaceDeclaration(name) ==
    [kind |-> "namespace", name |-> name, isExported |-> FALSE, isDefault |-> FALSE,
     jsDocs |-> <<>>, body |-> <<>>, lines |-> 1]

\* any other statement
Statement(body) ==
    [kind |-> "other", isExported |-> FALSE, isDefault |-> FALSE, jsDocs |-> <<>>,
     body |-> body, lines |-> 1]

\* members of classes and interfaces; offset is the line of the member
\* counted from the first line of its declaration
MethodDeclaration(name, offset) ==
    [name |-> name, jsDocs |-> <<>>, isStatic |-> FALSE, isAsync |-> FALSE,
     parameters |-> <<>>, returnType |-> "void", offset |-> offset, lines |-> 1]

PropertyDeclaration(name, type, offset) ==
    [name |-> name, isStatic |-> FALSE, isReadonly |-> FALSE, isOptional |-> FALSE,
     type |-> type, offset |-> offset, lines |-> 1]

\* descendant syntax nodes
Node(kind) == [kind |-> kind]
BinaryExpression(operator) == [kind |-> "BinaryExpression", operator |-> operator]
Repeat(node, n) == [k \in 1..n |-> node]

-----------------------------------------------------------------------------
(* Line numbers: every statement starts on a line of its own, after its    *)
(* doc comments, which take one line each                                  *)

RECURSIVE LinesBefore(_, _)
LinesBefore(file, k) ==
    IF k <= 1 THEN 0
    ELSE LinesBefore(file, k - 1) + Len(file[k - 1].jsDocs) + file[k - 1].lines

\* getStartLineNumber() and getEndLineNumber() of the statement at k
StartLineNumber(file, k) == LinesBefore(file, k) + Len(file[k].jsDocs) + 1
EndLineNumber(file, k) == StartLineNumber(file, k) + file[k].lines - 1

\* sourceFile.getEndLineNumber()
FileEndLineNumber(file) ==
    IF file = <<>> THEN 1 ELSE EndLineNumber(file, Len(file))

\* the positions of the statements of a kind, in source order
\* (getClasses, getInterfaces, getFunctions, ...)
StatementsOfKind(file, kind) ==
    SelectSeq([k \in 1..Len(file) |-> k], LAMBDA k : file[k].kind = kind)

-----------------------------------------------------------------------------
(* printer.ts:432-441 *)

getJsDoc(node) ==
    IF Len(node.jsDocs) > 0 THEN Trim(node.jsDocs[1]) ELSE None

-----------------------------------------------------------------------------
(* printer.ts:375-430 *)

extractImports(file) ==
    LET imps == StatementsOfKind(file, "import")
    IN  [n \in 1..Len(imps) |->
            LET imp == file[imps[n]]
            IN  [moduleSpecifier |-> imp.moduleSpecifier,
                 namedImports    |-> imp.namedImports,
                 defaultImport   |-> imp.defaultImport,
                 namespaceImport |-> imp.namespaceImport,
                 isTypeOnly      |-> imp.isTypeOnly]]

\* getDefaultExportSymbol(): a declaration exported as default or
\* an export default assignment
HasDefaultExportSymbol(file) ==
    \E k \in 1..Len(file) :
        \/ file[k].isDefault
        \/ file[k].kind = "export-assignment" /\ ~file[k].isExportEquals

\* getExportAssignment(e => !e.isExportEquals())
HasExportAssignment(file) ==
    \E k \in 1..Len(file) :
        file[k].kind = "export-assignment" /\ ~file[k].isExportEquals

extractExports(file) ==
    LET exps == StatementsOfKind(file, "export")
        named ==
            Flatten([n \in 1..Len(exps) |->
                LET exp == file[exps[n]]
                IN  [j \in 1..Len(exp.namedExports) |->
                        [name         |-> exp.namedExports[j],
                         isDefault    |-> FALSE,
                         isTypeOnly   |-> exp.isTypeOnly,
                         isReExport   |-> exp.moduleSpecifier # None,
                         sourceModule |-> exp.moduleSpecifier]]])
        default == [name |-> "default", isDefault |-> TRUE, isTypeOnly |-> FALSE,
                    isReExport |-> FALSE]
    IN  named
          \o (IF HasDefaultExportSymbol(file) THEN <<default>> ELSE <<>>)
          \o (IF HasExportAssignment(file) THEN <<default>> ELSE <<>>)

-----------------------------------------------------------------------------
(* printer.ts:443-477 *)

DecisionKinds ==
    {"IfStatement", "ForStatement", "ForInStatement", "ForOfStatement",
     "WhileStatement", "DoStatement", "CaseClause", "CatchClause",
     "ConditionalExpression"}

\* faulty variant of IsDecisionPoint: a ?? counts like && and ||
IsDecisionPointWithNullish(node) ==
    \/ node.kind \in DecisionKinds
    \/ node.kind = "BinaryExpression" /\ node.operator \in {"&&", "||", "??"}

IsDecisionPoint(node) ==
    \/ node.kind \in DecisionKinds
    \/ node.kind = "BinaryExpression" /\ node.operator \in {"&&", "||"}

\* forEachDescendant visits the descendants of every statement
estimateCyclomaticComplexity(file) ==
    1 + Sum([k \in 1..Len(file) |-> CountIf(file[k].body, IsDecisionPoint)])

-----------------------------------------------------------------------------
(* printer.ts:198-373 *)

MethodNode(file, k, method) ==
    [kind       |-> "method",
     name       |-> method.name,
     startLine  |-> StartLineNumber(file, k) + method.offset,
     endLine    |-> StartLineNumber(file, k) + method.offset + method.lines - 1,
     isExported |-> FALSE,
     jsdoc      |-> getJsDoc(method),
     children   |-> <<>>,
     metadata   |-> [isStatic   |-> method.isStatic,
                     isAsync    |-> method.isAsync,
                     parameters |-> method.parameters,
                     returnType |-> method.returnType]]

ClassPropertyNode(file, k, prop) ==
    [kind       |-> "property",
     name       |-> prop.name,
     startLine  |-> StartLineNumber(file, k) + prop.offset,
     endLine    |-> StartLineNumber(file, k) + prop.offset + prop.lines - 1,
     isExported |-> FALSE,
     children   |-> <<>>,
     metadata   |-> [isStatic   |-> prop.isStatic,
                     isReadonly |-> prop.isReadonly,
                     type       |-> prop.type]]

InterfacePropertyNode(file, k, prop) ==
    [kind       |-> "property",
     name       |-> prop.name,
     startLine  |-> StartLineNumber(file, k) + prop.offset,
     endLine    |-> StartLineNumber(file, k) + prop.offset + prop.lines - 1,
     isExported |-> FALSE,
     children   |-> <<>>,
     metadata   |-> [type |-> prop.type, isOptional |-> prop.isOptional]]

\* the fields every node of a top-level declaration gets
DeclarationNode(file, k, name, children, metadata) ==
    [kind       |-> file[k].kind,
     name       |-> name,
     startLine  |-> StartLineNumber(file, k),
     endLine    |-> EndLineNumber(file, k),
     isExported |-> file[k].isExported,
     jsdoc      |-> getJsDoc(file[k]),
     children   |-> children,
     metadata   |-> metadata]

\* cls.getName() ?? '<anonymous>'
NameOrAnonymous(name) == IF name = None THEN "<anonymous>" ELSE name

ClassNode(file, k) ==
    LET cls == file[k]
    IN  DeclarationNode(file, k, NameOrAnonymous(cls.name),
            [j \in 1..Len(cls.methods) |-> MethodNode(file, k, cls.methods[j])]
              \o [j \in 1..Len(cls.properties) |->
                    ClassPropertyNode(file, k, cls.properties[j])],
            [isAbstract |-> cls.isAbstract, extends |-> cls.extends,
             implements |-> cls.implements])

\* only the property signatures of an interface become children
InterfaceNode(file, k) ==
    LET iface == file[k]
    IN  DeclarationNode(file, k, iface.name,
            [j \in 1..Len(iface.properties) |->
                InterfacePropertyNode(file, k, iface.properties[j])],
            [extends |-> iface.extends])

FunctionNode(file, k) ==
    LET fn == file[k]
    IN  DeclarationNode(file, k, NameOrAnonymous(fn.name), <<>>,
            [isAsync |-> fn.isAsync, isGenerator |-> fn.isGenerator,
             parameters |-> fn.parameters, returnType |-> fn.returnType])

TypeAliasNode(file, k) ==
    DeclarationNode(file, k, file[k].name, <<>>, [type |-> file[k].type])

EnumNode(file, k) ==
    DeclarationNode(file, k, file[k].name, <<>>,
        [members |-> file[k].members, isConst |-> file[k].isConst])

\* one node per declaration of a variable statement; no jsdoc field
VariableNodes(file, k) ==
    LET varStmt == file[k]
    IN  [j \in 1..Len(varStmt.declarations) |->
            [kind       |-> "variable",
             name       |-> varStmt.declarations[j].name,
             startLine  |-> StartLineNumber(file, k),
             endLine    |-> EndLineNumber(file, k),
             isExported |-> varStmt.isExported,
             children   |-> <<>>,
             metadata   |-> [declarationKind |-> varStmt.declarationKind,
                             type |-> varStmt.declarations[j].type]]]

\* the nodes array of analyzeSourceFile: classes, interfaces, functions,
\* type aliases, enums, variables, each group in source order
NodesOf(file) ==
    LET Each(kind, NodeAt(_, _)) ==
            LET at == StatementsOfKind(file, kind)
            IN  [n \in 1..Len(at) |-> NodeAt(file, at[n])]
    IN  Each("class", ClassNode)
          \o Each("interface", InterfaceNode)
          \o Each("function", FunctionNode)
          \o Each("type-alias", TypeAliasNode)
          \o Each("enum", EnumNode)
          \o Flatten(Each("variable-statement", VariableNodes))

\* faulty variant of Metrics: the methods of classes count as functions and the
\* exported declarations as exports
MetricsCountingMembers(file, nodes, imports, exports) ==
    [linesOfCode          |-> FileEndLineNumber(file),
     functionCount        |->
        CountIf(nodes, LAMBDA n : n.kind = "function")
          + Sum([k \in 1..Len(nodes) |->
                    CountIf(nodes[k].children, LAMBDA c : c.kind = "method")]),
     classCount           |-> CountIf(nodes, LAMBDA n : n.kind = "class"),
     importCount          |-> Len(imports),
     exportCount          |-> CountIf(nodes, LAMBDA n : n.isExported),
     cyclomaticComplexity |-> estimateCyclomaticComplexity(file)]

\* printer.ts:362-370
Metrics(file, nodes, imports, exports) ==
    [linesOfCode          |-> FileEndLineNumber(file),
     functionCount        |-> CountIf(nodes, LAMBDA n : n.kind = "function"),
     classCount           |-> CountIf(nodes, LAMBDA n : n.kind = "class"),
     importCount          |-> Len(imports),
     exportCount          |-> Len(exports),
     cyclomaticComplexity |-> estimateCyclomaticComplexity(file)]

analyzeSourceFile(file, filePath) ==
    LET nodes   == NodesOf(file)
        imports == extractImports(file)
        exports == extractExports(file)
    IN  [returned |-> TRUE,
         filePath |-> filePath,
         nodes    |-> nodes,
         imports  |-> imports,
         exports  |-> exports,
         metrics  |-> Metrics(file, nodes, imports, exports)]

\* createSourceFile(filePath, source) and analyzeSourceFile
parseSource(source, filePath) == analyzeSourceFile(source, filePath)

-----------------------------------------------------------------------------
(* The analyzer (src/src/ast/analyzer.ts) *)

Quoted(str) == "\"" \o str \o "\""
Boolean(b) == IF b THEN "true" ELSE "false"
Member(key, value) == Quoted(key) \o ":" \o value
Object(members) == "{" \o Join(members, ",") \o "}"
Array(values) == "[" \o Join(values, ",") \o "]"
Strings(strs) == Array([k \in 1..Len(strs) |-> Quoted(strs[k])])

\* JSON.stringify(n.metadata) for the node of a top-level declaration; a
\* member whose value is undefined is left out
JSONStringify(n) ==
    LET m == n.metadata
    IN  CASE n.kind = "class" ->
                Object(<<Member("isAbstract", Boolean(m.isAbstract))>>
                    \o (IF m.extends = None THEN <<>>
                        ELSE <<Member("extends", Quoted(m.extends))>>)
                    \o <<Member("implements", Strings(m.implements))>>)
          [] n.kind = "interface" ->
                Object(<<Member("extends", Strings(m.extends))>>)
          [] n.kind = "function" ->
                Object(<<Member("isAsync", Boolean(m.isAsync)),
                         Member("isGenerator", Boolean(m.isGenerator)),
                         Member("parameters",
                            Array([k \in 1..Len(m.parameters) |->
                                Object(<<Member("name", Quoted(m.parameters[k].name)),
                                         Member("type", Quoted(m.parameters[k].type))>>)])),
                         Member("returnType", Quoted(m.returnType))>>)
          [] n.kind = "type-alias" ->
                Object(<<Member("type", Quoted(m.type))>>)
          [] n.kind = "enum" ->
                Object(<<Member("members", Strings(m.members)),
                         Member("isConst", Boolean(m.isConst))>>)
          [] n.kind = "variable" ->
                Object(<<Member("declarationKind", Quoted(m.declarationKind)),
                         Member("type", Quoted(m.type))>>)

\* analyzer.ts:96-108
checkNamingConventions(node) ==
    IF /\ node.kind \in {"class", "interface"}
       /\ ~StartsUpperCase(node.name)
       /\ node.name # "<anonymous>"
    THEN << [type |-> "naming", severity |-> "warning", node |-> node.name,
             line |-> node.startLine] >>
    ELSE <<>>

\* !node.jsdoc: undefined (also a node without the field) and the empty
\* string are falsy
HasNoJsdoc(node) == Field(node, "jsdoc", None) \in {None, ""}

\* analyzer.ts:115-126
MissingJsdoc(node) ==
    IF /\ node.isExported /\ HasNoJsdoc(node)
       /\ node.kind \in {"function", "class", "interface"}
    THEN << [type |-> "missing-jsdoc", severity |-> "info", node |-> node.name,
             line |-> node.startLine] >>
    ELSE <<>>

\* analyzer.ts:113-134; the children of a node have no children themselves
checkNodeIssues(node) ==
    MissingJsdoc(node)
      \o checkNamingConventions(node)
      \o Flatten([j \in 1..Len(node.children) |->
            MissingJsdoc(node.children[j]) \o checkNamingConventions(node.children[j])])

\* analyzer.ts:76-81
IsUsed(res, named) ==
    \E k \in 1..Len(res.nodes) :
        LET n == res.nodes[k]
        IN  \/ n.name = named
            \/ Includes(JSONStringify(n), named)
            \/ \E j \in 1..Len(n.children) : n.children[j].name = named

\* faulty variant of DeadCode: type-only imports are looked at like the others
DeadCodeOfTypeImportsToo(res) ==
    Flatten([k \in 1..Len(res.imports) |->
        LET imp == res.imports[k]
        IN  Flatten([j \in 1..Len(imp.namedImports) |->
                IF IsUsed(res, imp.namedImports[j]) THEN <<>>
                ELSE << [type |-> "dead-code", severity |-> "info",
                         node |-> imp.namedImports[j]] >>])])

\* analyzer.ts:72-91
DeadCode(res) ==
    Flatten([k \in 1..Len(res.imports) |->
        LET imp == res.imports[k]
        IN  IF imp.isTypeOnly THEN <<>>
            ELSE Flatten([j \in 1..Len(imp.namedImports) |->
                    IF IsUsed(res, imp.namedImports[j]) THEN <<>>
                    ELSE << [type |-> "dead-code", severity |-> "info",
                             node |-> imp.namedImports[j]] >>])])

\* faulty variant of detectIssues: a complexity of 20 is reported too
detectIssuesFromTwenty(res) ==
    (IF res.metrics.linesOfCode > 500
     THEN << [type |-> "large-file", severity |-> "warning"] >> ELSE <<>>)
      \o (IF res.metrics.cyclomaticComplexity >= 20
          THEN << [type |-> "complexity", severity |-> "warning"] >> ELSE <<>>)
      \o Flatten([k \in 1..Len(res.nodes) |-> checkNodeIssues(res.nodes[k])])
      \o DeadCode(res)

\* analyzer.ts:45-94
detectIssues(res) ==
    (IF res.metrics.linesOfCode > 500
     THEN << [type |-> "large-file", severity |-> "warning"] >> ELSE <<>>)
      \o (IF res.metrics.cyclomaticComplexity > 20
          THEN << [type |-> "complexity", severity |-> "warning"] >> ELSE <<>>)
      \o Flatten([k \in 1..Len(res.nodes) |-> checkNodeIssues(res.nodes[k])])
      \o DeadCode(res)

\* analyzer.ts:139-162
generateSummary(res, issues) ==
    LET m == res.metrics
        Severity(sev) == CountIf(issues, LAMBDA issue : issue.severity = sev)
        parts == <<ToString(m.linesOfCode) \o " LOC",
                   ToString(m.functionCount) \o " functions",
                   ToString(m.classCount) \o " classes",
                   ToString(m.importCount) \o " imports",
                   ToString(m.exportCount) \o " exports",
                   "complexity: " \o ToString(m.cyclomaticComplexity)>>
        issueStr ==
            Join((IF Severity("error") > 0
                  THEN <<ToString(Severity("error")) \o " errors">> ELSE <<>>)
                   \o (IF Severity("warning") > 0
                       THEN <<ToString(Severity("warning")) \o " warnings">> ELSE <<>>)
                   \o (IF Severity("info") > 0
                       THEN <<ToString(Severity("info")) \o " info">> ELSE <<>>),
                 ", ")
    IN  Join(parts, ", ")
          \o (IF issueStr # "" THEN " | Issues: " \o issueStr ELSE " | No issues")

\* analyzer.ts:30-40
analyzeCode(source, filePath) ==
    LET res == parseSource(source, filePath)
        issues == detectIssues(res)
    IN  [returned |-> TRUE,
         filePath |-> filePath,
         issues   |-> issues,
         metrics  |-> res.metrics,
         summary  |-> generateSummary(res, issues)]

-----------------------------------------------------------------------------
(* analyzer.ts:165-197 *)

\* `${n.kind}:${n.name}`
Key(n) == n.kind \o ":" \o n.name

\* new Set(values), spread again: the values in order of first occurrence
RECURSIVE Unique(_)
Unique(values) ==
    IF values = <<>> THEN <<>>
    ELSE LET front == Unique(SubSeq(values, 1, Len(values) - 1))
             last  == values[Len(values)]
         IN  IF InSeq(last, front) THEN front ELSE Append(front, last)

KeysOf(nodes) == [k \in 1..Len(nodes) |-> Key(nodes[k])]

Abs(n) == IF n < 0 THEN -n ELSE n

\* nodes.find(n => `${n.kind}:${n.name}` === key)
FindNode(nodes, key) == nodes[FirstIndex(key, KeysOf(nodes))]

\* faulty variant of Modified: a difference of two lines is reported too
ModifiedFromTwo(resultA, resultB, common) ==
    SelectSeq(common, LAMBDA key :
        LET nodeA == FindNode(resultA.nodes, key)
            nodeB == FindNode(resultB.nodes, key)
            sizeA == nodeA.endLine - nodeA.startLine
            sizeB == nodeB.endLine - nodeB.startLine
        IN  Abs(sizeA - sizeB) >= 2)

\* analyzer.ts:185-194
Modified(resultA, resultB, common) ==
    SelectSeq(common, LAMBDA key :
        LET nodeA == FindNode(resultA.nodes, key)
            nodeB == FindNode(resultB.nodes, key)
            sizeA == nodeA.endLine - nodeA.startLine
            sizeB == nodeB.endLine - nodeB.startLine
        IN  Abs(sizeA - sizeB) > 2)

\* faulty variant of compareStructure: both lists are taken from the second
\* text's declarations
compareStructureOneSided(sourceA, sourceB) ==
    LET resultA == parseSource(sourceA, "a.ts")
        resultB == parseSource(sourceB, "b.ts")
        namesA  == Unique(KeysOf(resultA.nodes))
        namesB  == Unique(KeysOf(resultB.nodes))
        common  == SelectSeq(namesA, LAMBDA n : InSeq(n, namesB))
    IN  [returned |-> TRUE,
         added    |-> SelectSeq(namesB, LAMBDA n : ~InSeq(n, namesA)),
         removed  |-> SelectSeq(namesB, LAMBDA n : ~InSeq(n, namesA)),
         modified |-> Modified(resultA, resultB, common)]

\* faulty variant of compareStructure: removed is filtered from the node list
\* itself, not from the set of its keys
compareStructureRemovedFromNodes(sourceA, sourceB) ==
    LET resultA == parseSource(sourceA, "a.ts")
        resultB == parseSource(sourceB, "b.ts")
        namesA  == Unique(KeysOf(resultA.nodes))
        namesB  == Unique(KeysOf(resultB.nodes))
        common  == SelectSeq(namesA, LAMBDA n : InSeq(n, namesB))
    IN  [returned |-> TRUE,
         added    |-> SelectSeq(namesB, LAMBDA n : ~InSeq(n, namesA)),
         removed  |-> SelectSeq(KeysOf(resultA.nodes), LAMBDA n : ~InSeq(n, namesB)),
         modified |-> Modified(resultA, resultB, common)]

compareStructure(sourceA, sourceB) ==
    LET resultA == parseSource(sourceA, "a.ts")
        resultB == parseSource(sourceB, "b.ts")
        namesA  == Unique(KeysOf(resultA.nodes))
        namesB  == Unique(KeysOf(resultB.nodes))
        common  == SelectSeq(namesA, LAMBDA n : InSeq(n, namesB))
    IN  [returned |-> TRUE,
         added    |-> SelectSeq(namesB, LAMBDA n : ~InSeq(n, namesA)),
         removed  |-> SelectSeq(namesA, LAMBDA n : ~InSeq(n, namesB)),
         modified |-> Modified(resultA, resultB, common)]

-----------------------------------------------------------------------------
(* The texts given to the parser and the analyzer *)

Exported(st) == With(st, [isExported |-> TRUE])
Documented(st, description) == With(st, [jsDocs |-> <<description>>])

Sources ==
    { \* the empty text
      <<>>,
      \* function foo(): void {}
      << FunctionDeclaration("foo") >>,
      \* function foo(): void {}  function bar(): void {}
      << FunctionDeclaration("foo"), FunctionDeclaration("bar") >>,
      \* export function noDoc(): void {}
      << Exported(FunctionDeclaration("noDoc")) >>,
      \* /** Greets. */ export function greet(name: string): string { ... }
      << Documented(Exported(With(FunctionDeclaration("greet"),
            [parameters |-> << [name |-> "name", type |-> "string"] >>,
             returnType |-> "string", lines |-> 3])), " Greets. ") >>,
      \* /** @deprecated */ export function old(): void {}
      \* /** */ export interface Empty {}
      << Documented(Exported(FunctionDeclaration("old")), ""),
         Documented(Exported(InterfaceDeclaration("Empty")), " ") >>,
      \* export class MyClass { name: string; greet(): string {} }
      \* export interface Shape { area: number; scale(): void }
      \* class helper {}
      << Exported(With(ClassDeclaration("MyClass"),
            [properties |-> << PropertyDeclaration("name", "string", 1) >>,
             methods |-> << MethodDeclaration("greet", 2) >>, lines |-> 4])),
         Exported(With(InterfaceDeclaration("Shape"),
            [properties |-> << PropertyDeclaration("area", "number", 1) >>,
             methods |-> << MethodDeclaration("scale", 2) >>, lines |-> 4])),
         ClassDeclaration("helper") >>,
      \* /** Doc */ export class A {}  export type T = string;
      \* export enum E { X }  export const x = 1, y = 2;  namespace N {}
      << Documented(Exported(ClassDeclaration("A")), "Doc"),
         Exported(TypeAliasDeclaration("T", "string")),
         Exported(EnumDeclaration("E", <<"X">>)),
         Exported(VariableStatement("const",
            << [name |-> "x", type |-> "1"], [name |-> "y", type |-> "2"] >>)),
         NamespaceDeclaration("N") >>,
      \* interface A {}  function foo(): void {}  interface A {}  class A {}
      << InterfaceDeclaration("A"), FunctionDeclaration("foo"),
         InterfaceDeclaration("A"), ClassDeclaration("A") >>,
      \* function complex(x) { 19 times: if (x === n) return n; }
      << With(FunctionDeclaration("complex"),
            [body |-> Repeat(Node("IfStatement"), 19), lines |-> 21]) >>,
      \* function complex(x) { 20 times: if (x === n) return n; }
      << With(FunctionDeclaration("complex"),
            [body |-> Repeat(Node("IfStatement"), 20), lines |-> 22]) >>,
      \* a function of ten && and two +, a class whose methods hold five case
      \* clauses, a catch clause and a loop, and a statement of three ?:
      << With(FunctionDeclaration("check"),
            [body |-> Repeat(BinaryExpression("&&"), 10)
                        \o Repeat(BinaryExpression("+"), 2), lines |-> 5]),
         With(ClassDeclaration("Machine"),
            [methods |-> << MethodDeclaration("run", 1) >>,
             body |-> Repeat(Node("CaseClause"), 5)
                        \o << Node("SwitchStatement"), Node("CatchClause"),
                              Node("TryStatement"), Node("ForOfStatement") >>,
             lines |-> 12]),
         Statement(Repeat(Node("ConditionalExpression"), 3)) >>,
      \* import { a } from './a';  import { Foo, bar } from './foo';
      \* import type { T } from './t';  function foo(x: Foo): void {}
      \* function qux(): void {}
      \* export { foo };  export default foo;
      << ImportDeclaration("./a", <<"a">>),
         ImportDeclaration("./foo", <<"Foo", "bar">>),
         With(ImportDeclaration("./t", <<"T">>), [isTypeOnly |-> TRUE]),
         With(FunctionDeclaration("foo"),
            [parameters |-> << [name |-> "x", type |-> "Foo"] >>]),
         FunctionDeclaration("qux"),
         ExportDeclaration(<<"foo">>, None),
         ExportAssignment(FALSE) >>,
      \* import { bar } from './foo';  export default function () {}
      \* export { bar as baz } from './foo';
      << ImportDeclaration("./foo", <<"bar">>),
         With(Exported(FunctionDeclaration(None)), [isDefault |-> TRUE]),
         ExportDeclaration(<<"baz">>, "./foo") >>,
      \* a class of 501 lines
      << With(ClassDeclaration("Big"), [lines |-> 501]) >>,
      \* a function holding one of each kind of branching construct, a
      \* default clause, a ?? and a + among them
      << With(FunctionDeclaration("every"),
            [body |-> << Node("IfStatement"), Node("ForStatement"),
                         Node("ForInStatement"), Node("ForOfStatement"),
                         Node("WhileStatement"), Node("DoStatement"),
                         Node("SwitchStatement"), Node("CaseClause"),
                         Node("DefaultClause"), Node("TryStatement"),
                         Node("CatchClause"), Node("ConditionalExpression"),
                         BinaryExpression("&&"), BinaryExpression("||"),
                         BinaryExpression("??"), BinaryExpression("+") >>,
             lines |-> 20]) >>,
      \* function foo(): void { ... } over four lines, alone and followed by
      \* function bar(): void { ... } over three lines
      << With(FunctionDeclaration("foo"), [lines |-> 4]) >>,
      << With(FunctionDeclaration("foo"), [lines |-> 4]),
         With(FunctionDeclaration("bar"), [lines |-> 3]) >>,
      \* import { Shape, area, render, zed } from './m';
      \* import { zed } from './n';  import type { Props } from './p';
      \* interface Shape { area: number }
      << ImportDeclaration("./m", <<"Shape", "area", "render", "zed">>),
         ImportDeclaration("./n", <<"zed">>),
         With(ImportDeclaration("./p", <<"Props">>), [isTypeOnly |-> TRUE]),
         With(InterfaceDeclaration("Shape"),
            [properties |-> << PropertyDeclaration("area", "number", 1) >>,
             lines |-> 3]) >> }

-----------------------------------------------------------------------------
(* The parser and the analyzer called on a text, or on two texts *)

TransformerIdle ==
    /\ text = <<>>
    /\ operations = <<>>
    /\ sourceFile = <<>>
    /\ appliedCount = 0
    /\ failures = <<>>
    /\ i = 1
    /\ pc = "idle"
    /\ result = NoResult
    /\ outcome = "none"
    /\ earlier = NoCall

InitAnalyzer ==
    /\ TransformerIdle
    /\ textA \in Sources
    /\ textB \in Sources
    /\ parsed = NoResult
    /\ report = NoResult
    /\ diff = NoResult
    /\ diffBack = NoResult
    /\ PrinterIdle
    /\ NewEngine

\* parseSource(textA)
Parse ==
    /\ parsed = NoResult
    /\ parsed' = parseSource(textA, "source.ts")
    /\ UNCHANGED <<textA, textB, report, diff, diffBack, transformerVars, printerVars, engineVars>>

\* analyzeCode(textA)
Analyze ==
    /\ report = NoResult
    /\ report' = analyzeCode(textA, "source.ts")
    /\ UNCHANGED <<textA, textB, parsed, diff, diffBack, transformerVars, printerVars, engineVars>>

\* compareStructure(textA, textB)
Compare ==
    /\ diff = NoResult
    /\ diff' = compareStructure(textA, textB)
    /\ UNCHANGED <<textA, textB, parsed, report, diffBack, transformerVars, printerVars, engineVars>>

\* compareStructure(textB, textA)
CompareBack ==
    /\ diffBack = NoResult
    /\ diffBack' = compareStructure(textB, textA)
    /\ UNCHANGED <<textA, textB, parsed, report, diff, transformerVars, printerVars, engineVars>>

NextAnalyzer == Parse \/ Analyze \/ Compare \/ CompareBack

SpecAnalyzer == InitAnalyzer /\ [][NextAnalyzer]_vars

-----------------------------------------------------------------------------
(* compareStructure *)

DeclarationKinds == {"class", "interface", "function", "type-alias", "enum"}

\* the {kind}:{name} identifiers of the top-level declarations of a text,
\* read off its statements
DeclaredKeys(file) ==
    { file[k].kind \o ":" \o NameOrAnonymous(file[k].name) :
        k \in {n \in 1..Len(file) : file[n].kind \in DeclarationKinds} }
      \cup UNION { { "variable:" \o file[k].declarations[j].name :
                        j \in 1..Len(file[k].declarations) } :
                   k \in {n \in 1..Len(file) : file[n].kind = "variable-statement"} }

NoRepeats(s) == \A j, k \in 1..Len(s) : j # k => s[j] # s[k]

C16_DiffSymmetry ==
    (diff.returned /\ diffBack.returned) =>
        /\ diff.added = diffBack.removed
        /\ diff.removed = diffBack.added

\* two different texts have been compared both ways, one of them declaring
\* an identifier twice, with several identifiers added and some removed
C16_Witness ==
    /\ diff.returned
    /\ diffBack.returned
    /\ Len(diff.removed) >= 2
    /\ diff.added # <<>>
    /\ \E j, k \in 1..Len(textA) :
          j # k /\ textA[j].kind = "interface" /\ textA[j] = textA[k]

-----------------------------------------------------------------------------
(* C17: in every parse result the metrics are derived from the parsed      *)
(* model and nothing else: functionCount is the number of top-level        *)
(* function declarations in the tree (N for a text of N function           *)
(* declarations), classCount the number of class declarations, importCount *)
(* the length of the import table and exportCount the length of the export *)
(* table.                                                                  *)
C17_MetricsDerived ==
    parsed.returned =>
        LET m == parsed.metrics
        IN  /\ m.functionCount = CountIf(parsed.nodes, LAMBDA n : n.kind = "function")
            /\ m.functionCount = CountIf(textA, LAMBDA st : st.kind = "function")
            /\ m.classCount = CountIf(parsed.nodes, LAMBDA n : n.kind = "class")
            /\ m.classCount = CountIf(textA, LAMBDA st : st.kind = "class")
            /\ m.importCount = Len(parsed.imports)
            /\ m.importCount = CountIf(textA, LAMBDA st : st.kind = "import")
            /\ m.exportCount = Len(parsed.exports)

\* a text of two functions, imports and exports has been parsed
C17_Witness ==
    /\ parsed.returned
    /\ parsed.metrics.functionCount = 2
    /\ parsed.metrics.importCount = 3
    /\ parsed.metrics.exportCount = 3
    /\ Len(parsed.nodes) = 2

-----------------------------------------------------------------------------
(* C18: missing-jsdoc issues *)

IssuesOfType(type) ==
    SelectSeq(report.issues, LAMBDA issue : issue.type = type)

\* the declarations of textA that are exported classes, interfaces or
\* functions with no leading doc comment, by name and line
UndocumentedExports ==
    { <<NameOrAnonymous(textA[k].name), StartLineNumber(textA, k)>> :
        k \in {n \in 1..Len(textA) :
                /\ textA[n].kind \in {"class", "interface", "function"}
                /\ textA[n].isExported
                /\ textA[n].jsDocs = <<>>} }

\* C18: analyze reports a missing-jsdoc issue for a declaration if and only
\* if it is an exported class, interface or function with no leading doc
\* comment: an exported declaration of those kinds that has a leading doc
\* comment, a non-exported declaration, a nested member and a declaration of
\* any other kind never get one.
C18_MissingJsdoc ==
    report.returned =>
        LET issues == IssuesOfType("missing-jsdoc")
        IN  /\ {<<issues[k].node, issues[k].line>> : k \in 1..Len(issues)}
                  = UndocumentedExports
            /\ Len(issues) = Cardinality(UndocumentedExports)

-----------------------------------------------------------------------------
-----------------------------------------------------------------------------
(* Failing operations and the working text                                 *)

\* the operations of ops that succeed in their turn, in the order of ops
RECURSIVE SucceededOps(_, _)
SucceededOps(file, ops) ==
    IF ops = <<>> THEN <<>>
    ELSE LET r == applyOperation(file, Head(ops))
         IN  IF r.threw THEN SucceededOps(file, Tail(ops))
             ELSE <<Head(ops)>> \o SucceededOps(r.file, Tail(ops))

\* the source transform returns for the batch ops on the text file
TransformSource(file, ops) == SucceededOnly(file, ops)

\* C24: an operation that fails leaves the working text exactly as it was
\* before that operation, and the source transform returns for a batch is
\* the source it returns for the batch of only the operations that
\* succeeded, in the same order (none of which then fails).
C24_FailureLeavesText ==
    [][ /\ (AtOperation /\ outcome' = "failed") => sourceFile' = sourceFile
        /\ (pc = "loop" /\ pc' = "done") =>
              LET kept == SucceededOps(text, operations)
              IN  /\ result'.source = TransformSource(text, kept)
                  /\ SucceededCount(text, kept) = Len(kept)
                  /\ result'.source = ApplyInOrder(text, kept) ]_vars

\* a returned batch whose first operation failed on a class that exists
\* (an add-method request without parameters) and whose second operation
\* changed the text
C24_Witness ==
    /\ Done
    /\ Len(operations) = 2
    /\ operations[1].type = "add-method"
    /\ "parameters" \notin DOMAIN operations[1]
    /\ GetDeclaration(text, "class", operations[1].targetClass) # 0
    /\ Len(result.failedOperations) = 1
    /\ result.failedOperations[1].operation = operations[1]
    /\ result.appliedOperations = 1
    /\ result.source # text
    /\ result.source = applyOperation(text, operations[2]).file

-----------------------------------------------------------------------------
(* Exceptions of any kind                                                  *)

\* the message of the TypeError raised by params.trim() on an undefined
\* parameters field (transformer.ts:209)
TrimOfUndefined ==
    <<"Cannot", "read", "properties", "of", "undefined", "(reading", "'trim')">>

\* the operation about to be applied is an add-method request without a
\* parameters string, on a class the working text declares
AtMethodWithoutParameters ==
    /\ AtOperation
    /\ operations[i].type = "add-method"
    /\ "parameters" \notin DOMAIN operations[i]
    /\ GetDeclaration(sourceFile, "class", operations[i].targetClass) # 0

\* C25: whatever is thrown while one operation is applied (a runtime
\* TypeError from a missing parameters string included) is caught inside
\* transform: the iteration appends a failure entry holding the operation
\* and the message of what was thrown, the loop goes on with the next
\* operation, and when the loop is over transform returns a result that
\* holds these entries, every operation having been attempted.
C25_AnyExceptionCaught ==
    [][ /\ (AtOperation /\ applyOperation(sourceFile, operations[i]).threw) =>
              /\ Failed
              /\ NewMessage = applyOperation(sourceFile, operations[i]).message
              /\ GoesOn
        /\ AtMethodWithoutParameters =>
              Failed /\ NewMessage = TrimOfUndefined /\ GoesOn
        /\ (pc = "loop" /\ ~AtOperation) =>
              /\ pc' = "done"
              /\ result'.returned
              /\ result'.failedOperations = failures
              /\ i = Len(operations) + 1
              /\ result'.appliedOperations + Len(failures) = Len(operations) ]_vars

\* a call has returned after an add-method request without parameters, on a
\* class that exists, was recorded with the TypeError's message and the
\* operation after it was applied
C25_Witness ==
    /\ Done
    /\ result.returned
    /\ Len(operations) = 2
    /\ operations[1].type = "add-method"
    /\ "parameters" \notin DOMAIN operations[1]
    /\ Len(result.failedOperations) = 1
    /\ result.failedOperations[1].message = TrimOfUndefined
    /\ result.appliedOperations = 1
    /\ operations[2].type = "add-import"

-----------------------------------------------------------------------------
(* The parser's complexity and child nodes                                 *)

\* the places <<statement, descendant>> of a text that hold an if statement,
\* a loop of one of the five forms, a case clause, a catch clause, a ternary
\* expression or a binary expression of && or ||
BranchingPlaces(file) ==
    UNION { { <<k, j>> : j \in { n \in 1..Len(file[k].body) :
                LET node == file[k].body[n]
                IN  \/ node.kind = "IfStatement"
                    \/ node.kind \in {"ForStatement", "ForInStatement",
                                      "ForOfStatement", "WhileStatement",
                                      "DoStatement"}
                    \/ node.kind = "CaseClause"
                    \/ node.kind = "CatchClause"
                    \/ node.kind = "ConditionalExpression"
                    \/ /\ node.kind = "BinaryExpression"
                       /\ node.operator = "&&" \/ node.operator = "||" } } :
            k \in 1..Len(file) }

\* C26: parse computes cyclomaticComplexity as 1 plus the number of
\* occurrences, anywhere in the text, of an if statement, a for / for-in /
\* for-of / while / do loop, a switch case clause, a catch clause, a ternary
\* expression and a binary expression of && or ||; nothing else adds to it,
\* so the value is at least 1.
C26_Complexity ==
    parsed.returned =>
        /\ parsed.metrics.cyclomaticComplexity
              = 1 + Cardinality(BranchingPlaces(textA))
        /\ parsed.metrics.cyclomaticComplexity >= 1

\* a text holding one of each counted construct, and a default clause, a
\* switch, a try, a ?? and a + that are not counted, has been parsed: 12
C26_Witness ==
    /\ parsed.returned
    /\ Len(textA) = 1
    /\ \E j \in 1..Len(textA[1].body) :
          /\ textA[1].body[j].kind = "BinaryExpression"
          /\ textA[1].body[j].operator = "??"
    /\ \E j \in 1..Len(textA[1].body) : textA[1].body[j].kind = "DoStatement"
    /\ \E j \in 1..Len(textA[1].body) : textA[1].body[j].kind = "DefaultClause"
    /\ Len(textA[1].body) = 16
    /\ parsed.metrics.cyclomaticComplexity = 12

\* the children of kind `kind` that a node has at line `line`
ChildrenAt(node, kind, name, line) ==
    { c \in 1..Len(node.children) :
        /\ node.children[c].kind = kind
        /\ node.children[c].name = name
        /\ node.children[c].startLine = line }

\* C27: for every class and every interface of the text, each of its method
\* members and each of its property members appears as exactly one child
\* node (kind method or property) of that declaration's node, and the node
\* has no other children; children have no children of their own, and only
\* class and interface nodes have children.
C27_MembersAreChildren ==
    parsed.returned =>
        /\ \A k \in 1..Len(textA) :
              textA[k].kind \in {"class", "interface"} =>
                \E n \in 1..Len(parsed.nodes) :
                    LET node == parsed.nodes[n]
                        decl == textA[k]
                        line == StartLineNumber(textA, k)
                    IN  /\ node.kind = decl.kind
                        /\ node.startLine = line
                        /\ \A m \in 1..Len(decl.methods) :
                              Cardinality(ChildrenAt(node, "method", decl.methods[m].name,
                                            line + decl.methods[m].offset)) = 1
                        /\ \A m \in 1..Len(decl.properties) :
                              Cardinality(ChildrenAt(node, "property", decl.properties[m].name,
                                            line + decl.properties[m].offset)) = 1
                        /\ Len(node.children)
                              = Len(decl.methods) + Len(decl.properties)
        /\ \A n \in 1..Len(parsed.nodes) :
              /\ \A c \in 1..Len(parsed.nodes[n].children) :
                    parsed.nodes[n].children[c].children = <<>>
              /\ parsed.nodes[n].children # <<>>
                    => parsed.nodes[n].kind \in {"class", "interface"}

-----------------------------------------------------------------------------
(* Dead-code issues                                                        *)

\* the declarations analyzeCode looks through for textA
Declarations == parseSource(textA, "source.ts").nodes

\* the identifier reappears as the name of a top-level declaration, as the
\* name of a nested child, or in the serialized metadata of a declaration
Reappears(identifier) ==
    \E n \in 1..Len(Declarations) :
        \/ Declarations[n].name = identifier
        \/ \E c \in 1..Len(Declarations[n].children) :
              Declarations[n].children[c].name = identifier
        \/ Includes(JSONStringify(Declarations[n]), identifier)

\* the named bindings <<statement, position>> of the imports of textA, and
\* those of its imports that are not type-only
NamedBindings ==
    UNION { { <<k, j>> : j \in 1..Len(textA[k].namedImports) } :
            k \in { n \in 1..Len(textA) : textA[n].kind = "import" } }

ValueBindings == { b \in NamedBindings : ~textA[b[1]].isTypeOnly }

IdentifierOf(binding) == textA[binding[1]].namedImports[binding[2]]

\* the number of dead-code issues that name the identifier
DeadCodeIssuesFor(identifier) ==
    Len(SelectSeq(IssuesOfType("dead-code"), LAMBDA issue : issue.node = identifier))

\* C28 as claimed: every named import whose identifier does not reappear is
\* reported, one issue per identifier, and nothing else is.
C28_Original ==
    report.returned =>
        /\ \A b \in NamedBindings :
              DeadCodeIssuesFor(IdentifierOf(b))
                  = IF Reappears(IdentifierOf(b)) THEN 0 ELSE 1
        /\ \A k \in 1..Len(IssuesOfType("dead-code")) :
              \E b \in NamedBindings :
                  IdentifierOf(b) = IssuesOfType("dead-code")[k].node

\* C28 as amended: analyze reports a dead-code issue for a named import
\* exactly when the import is not type-only and its identifier does not
\* reappear in any top-level declaration name, nested child name or
\* serialized declaration metadata: one issue per such named binding (an
\* identifier bound by two imports gets two), and none for a type-only
\* import or for an identifier that reappears.
C28_DeadCode ==
    report.returned =>
        /\ \A b \in NamedBindings :
              DeadCodeIssuesFor(IdentifierOf(b))
                  = IF Reappears(IdentifierOf(b)) THEN 0
                    ELSE Cardinality({ v \in ValueBindings :
                                         IdentifierOf(v) = IdentifierOf(b) })
        /\ Len(IssuesOfType("dead-code"))
              = Cardinality({ v \in ValueBindings : ~Reappears(IdentifierOf(v)) })
        /\ \A k \in 1..Len(IssuesOfType("dead-code")) :
              \E v \in ValueBindings :
                  IdentifierOf(v) = IssuesOfType("dead-code")[k].node

\* a text has been analyzed whose imports bind a declaration's name, a
\* child's name, an identifier found nowhere, an identifier bound twice and
\* a type-only identifier found nowhere
C28_Witness ==
    /\ report.returned
    /\ \E b \in ValueBindings :
          \E n \in 1..Len(Declarations) : Declarations[n].name = IdentifierOf(b)
    /\ \E b \in ValueBindings :
          /\ \E n \in 1..Len(Declarations) :
                \E c \in 1..Len(Declarations[n].children) :
                    Declarations[n].children[c].name = IdentifierOf(b)
          /\ DeadCodeIssuesFor(IdentifierOf(b)) = 0
    /\ \E b \in ValueBindings : DeadCodeIssuesFor(IdentifierOf(b)) = 1
    /\ \E b \in ValueBindings : DeadCodeIssuesFor(IdentifierOf(b)) = 2
    /\ \E b \in NamedBindings \ ValueBindings :
          ~Reappears(IdentifierOf(b)) /\ DeadCodeIssuesFor(IdentifierOf(b)) = 0
    /\ Len(IssuesOfType("dead-code")) = 3

-----------------------------------------------------------------------------
(* compareStructure: modified                                              *)

\* the {kind}:{name} identifier a statement declares (a variable statement:
\* its declarations)
KeysDeclaredAt(file, k) ==
    IF file[k].kind \in DeclarationKinds
    THEN { file[k].kind \o ":" \o NameOrAnonymous(file[k].name) }
    ELSE IF file[k].kind = "variable-statement"
    THEN { "variable:" \o file[k].declarations[j].name :
              j \in 1..Len(file[k].declarations) }
    ELSE {}

\* endLine - startLine of the declaration of an identifier in a text (the
\* first one, should the text declare it more than once)
BodySpan(file, key) ==
    LET at    == { k \in 1..Len(file) : key \in KeysDeclaredAt(file, k) }
        first == CHOOSE k \in at : \A other \in at : k <= other
    IN  EndLineNumber(file, first) - StartLineNumber(file, first)

SpanDifference(key) ==
    Abs(BodySpan(textA, key) - BodySpan(textB, key))

\* C29: compareStructure reports an identifier as modified exactly when it
\* is present in both versions and the body span (endLine - startLine) of
\* its declaration differs between the two versions by strictly more than 2
\* lines; a difference of 0, 1 or 2 lines is never reported, and no
\* identifier is both modified and added or removed.
C29_Modified ==
    diff.returned =>
        /\ { diff.modified[k] : k \in 1..Len(diff.modified) }
              = { key \in DeclaredKeys(textA) \cap DeclaredKeys(textB) :
                    SpanDifference(key) > 2 }
        /\ \A k \in 1..Len(diff.modified) :
              /\ SpanDifference(diff.modified[k]) \notin {0, 1, 2}
              /\ ~InSeq(diff.modified[k], diff.added)
              /\ ~InSeq(diff.modified[k], diff.removed)

\* two texts have been compared that both declare foo and bar, foo's span
\* differing by 3 lines (reported) and bar's by 2 (not reported)
C29_Witness ==
    /\ diff.returned
    /\ {"function:foo", "function:bar"} \subseteq DeclaredKeys(textA) \cap DeclaredKeys(textB)
    /\ SpanDifference("function:foo") = 3
    /\ SpanDifference("function:bar") = 2
    /\ diff.modified = << "function:foo" >>

-----------------------------------------------------------------------------
(* The printer (src/src/ast/printer.ts:25-135).  Source texts, headers and *)
(* statements are strings here.                                            *)

\* String.prototype.startsWith
StartsWith(str, prefix) ==
    Len(str) >= Len(prefix) /\ SubSeq(str, 1, Len(prefix)) = prefix

WhiteSpace == {" ", "\t", "\n", "\r"}

\* String.prototype.trimStart
RECURSIVE TrimStart(_)
TrimStart(str) ==
    IF Len(str) > 0 /\ SubSeq(str, 1, 1) \in WhiteSpace
    THEN TrimStart(SubSeq(str, 2, Len(str)))
    ELSE str

\* the first position of str at or after k that holds a line feed, 0 if none
RECURSIVE LineFeedFrom(_, _)
LineFeedFrom(str, k) ==
    IF k > Len(str) THEN 0
    ELSE IF SubSeq(str, k, k) = "\n" THEN k
    ELSE LineFeedFrom(str, k + 1)

\* str.split('\n')
RECURSIVE SplitLines(_)
SplitLines(str) ==
    LET k == LineFeedFrom(str, 1)
    IN  IF k = 0 THEN <<str>>
        ELSE <<SubSeq(str, 1, k - 1)>> \o SplitLines(SubSeq(str, k + 1, Len(str)))

\* printer.ts:29-32
LicenseComment(header) ==
    LET lines == SplitLines(header)
    IN  "/**\n" \o Join([k \in 1..Len(lines) |-> " * " \o lines[k]], "\n") \o "\n */\n\n"

\* printer.ts:28-40
addLicenseHeader(str, header) ==
    IF StartsWith(TrimStart(str), "/**") \/ StartsWith(TrimStart(str), "//")
    THEN str
    ELSE LicenseComment(header) \o str

\* options.defaultImport, options.namespaceImport: given and not empty
HasText(options, field) ==
    field \in DOMAIN options /\ Len(options[field]) > 0

\* options.namedImports && options.namedImports.length > 0
HasNamedImports(options) ==
    "namedImports" \in DOMAIN options /\ Len(options.namedImports) > 0

\* printer.ts:123-128: up to three names on one line, more one per line
NamedImportsText(namedImports) ==
    IF Len(namedImports) <= 3
    THEN "{ " \o Join(namedImports, ", ") \o " }"
    ELSE "{\n"
           \o Join([k \in 1..Len(namedImports) |-> "  " \o namedImports[k] \o ","], "\n")
           \o "\n}"

\* printer.ts:100-135
generateImport(options) ==
    Join(<<"import">>
           \o (IF Field(options, "isTypeOnly", FALSE) THEN <<"type">> ELSE <<>>)
           \o (IF HasText(options, "defaultImport")
               THEN <<options.defaultImport>>
                      \o (IF HasNamedImports(options) THEN <<",">> ELSE <<>>)
               ELSE <<>>)
           \o (IF HasText(options, "namespaceImport")
               THEN <<"* as " \o options.namespaceImport>>
               ELSE IF HasNamedImports(options)
               THEN <<NamedImportsText(options.namedImports)>>
               ELSE <<>>)
           \o <<"from", "'" \o options.moduleSpecifier \o "';">>,
         " ")

\* the source texts given to addLicenseHeader
LicenseTexts ==
    { "",
      "const x = 1;",
      "/** Existing comment */\nconst x = 1;",
      "// line comment\nconst x = 1;",
      "/* plain block comment */\nconst x = 1;",
      "/**/const x = 1;",
      "  \n\t/** Doc */\nfunction f() {}",
      "\n// note\nlet y;",
      " /* eslint-disable */\nlet y;",
      "/x/.test(s);",
      "#!/usr/bin/env node\n" }

LicenseHeaders == { "License", "MIT License\nCopyright 2026", "" }

\* an optional field of a record: absent when choice is <<>>, holding v when
\* choice is <<v>>
Optional(field, choice) == IF Len(choice) = 0 THEN <<>> ELSE (field :> choice[1])

ImportRequests ==
    { Optional("defaultImport", default)
        @@ Optional("namespaceImport", namespace)
        @@ Optional("namedImports", named)
        @@ Optional("isTypeOnly", typeOnly)
        @@ [moduleSpecifier |-> module] :
        default   \in { <<>>, <<"React">> },
        namespace \in { <<>>, <<"path">> },
        named     \in { <<>>, << <<>> >>, << <<"foo">> >>, << <<"foo", "bar">> >>,
                        << <<"a", "b", "c">> >>, << <<"a", "b", "c", "d">> >> },
        typeOnly  \in { <<>>, <<TRUE>> },
        module    \in { "react", "./utils" } }

InitPrinter ==
    /\ TransformerIdle
    /\ AnalyzerIdle
    /\ NewEngine
    /\ licenseText \in LicenseTexts
    /\ licenseHeader \in LicenseHeaders
    /\ stamped = NoResult
    /\ importOptions \in ImportRequests
    /\ importStatement = NoResult

\* addLicenseHeader(licenseText, licenseHeader)
AddLicenseHeader ==
    /\ stamped = NoResult
    /\ stamped' = [returned |-> TRUE,
                   source   |-> addLicenseHeader(licenseText, licenseHeader)]
    /\ UNCHANGED <<licenseText, licenseHeader, importOptions, importStatement>>
    /\ UNCHANGED <<transformerVars, analyzerVars, engineVars>>

\* generateImport(importOptions)
GenerateImport ==
    /\ importStatement = NoResult
    /\ importStatement' = [returned  |-> TRUE,
                           statement |-> generateImport(importOptions)]
    /\ UNCHANGED <<licenseText, licenseHeader, stamped, importOptions>>
    /\ UNCHANGED <<transformerVars, analyzerVars, engineVars>>

NextPrinter == AddLicenseHeader \/ GenerateImport

SpecPrinter == InitPrinter /\ [][NextPrinter]_vars

-----------------------------------------------------------------------------
(* addLicenseHeader and generateImport                                     *)

\* the text begins, after any leading white space, with a comment of either
\* form: a line comment or a block comment (a doc comment is a block comment)
BeginsWithComment(str) ==
    StartsWith(TrimStart(str), "//") \/ StartsWith(TrimStart(str), "/*")

\* C21: addLicenseHeader(text, header) returns text unchanged whenever text
\* already begins with a comment of any form, whatever the comment says, and
\* otherwise returns the header rendered as a block comment followed by
\* text.
C21_LicenseHeader ==
    stamped.returned =>
        stamped.source = IF BeginsWithComment(licenseText)
                         THEN licenseText
                         ELSE LicenseComment(licenseHeader) \o licenseText

\* the bindings of the statement under the precedence: default and named
\* together when both are given, else the namespace alone when given, else
\* what is left (the named bindings alone, or the default alone)
BindingsByPrecedence(options) ==
    IF HasText(options, "defaultImport") /\ HasNamedImports(options)
    THEN <<options.defaultImport, ",", NamedImportsText(options.namedImports)>>
    ELSE IF HasText(options, "namespaceImport")
    THEN <<"* as " \o options.namespaceImport>>
    ELSE IF HasNamedImports(options)
    THEN <<NamedImportsText(options.namedImports)>>
    ELSE IF HasText(options, "defaultImport")
    THEN <<options.defaultImport>>
    ELSE <<>>

\* C22: generateImport chooses the binding form by a fixed precedence over
\* every combination of supplied bindings: when both a default binding and
\* named bindings are given, the default+named combination is rendered;
\* otherwise a namespace binding, if given, is rendered alone; otherwise the
\* named bindings are rendered alone.
C22_BindingPrecedence ==
    importStatement.returned =>
        importStatement.statement =
            Join(<<"import">>
                   \o (IF Field(importOptions, "isTypeOnly", FALSE)
                       THEN <<"type">> ELSE <<>>)
                   \o BindingsByPrecedence(importOptions)
                   \o <<"from", "'" \o importOptions.moduleSpecifier \o "';">>,
                 " ")

-----------------------------------------------------------------------------
(* The template engine (src/unnamed/part_005).                             *)
(*                                                                         *)
(* A template source is the sequence of its parts: [text |-> ...] for      *)
(* literal text and [var |-> ...] for a {{name}} expression.  A map is a   *)
(* function over the keys it holds.                                        *)

\* most calls made on one engine
MaxEngineCalls == 4

Literal(str) == [text |-> str]
Expression(name) == [var |-> name]

\* handlebars.compile(source, { noEscape: true }): the delegate closes over
\* the source it was compiled from
Compile(template) == [compiledFrom |-> template]

\* compiled(context): literal text as it is, an expression replaced by the
\* context's value for the name, by nothing when the context has none
Evaluate(compiled, context) ==
    Join([k \in 1..Len(compiled.compiledFrom) |->
            LET part == compiled.compiledFrom[k]
            IN  IF "text" \in DOMAIN part THEN part.text
                ELSE IF part.var \in DOMAIN context THEN context[part.var]
                ELSE ""],
         "")

\* Map.prototype.set and Map.prototype.delete
MapSet(map, key, value) == (key :> value) @@ map
MapDelete(map, key) == [k \in DOMAIN map \ {key} |-> map[k]]

\* if (cacheKey ...): undefined and the empty string are falsy
HasCacheKey(cacheKey) == cacheKey # None /\ cacheKey # ""

\* part_005:117-143; cache is the compiledCache before the call, and the
\* record holds the compiledCache after it next to the TemplateRenderResult
renderSource(cache, template, context, cacheKey) ==
    LET hit      == HasCacheKey(cacheKey) /\ cacheKey \in DOMAIN cache
        compiled == IF hit THEN cache[cacheKey] ELSE Compile(template)
    IN  [cache      |-> IF ~hit /\ HasCacheKey(cacheKey)
                        THEN MapSet(cache, cacheKey, compiled)
                        ELSE cache,
         content    |-> Evaluate(compiled, context),
         templateId |-> IF cacheKey = None THEN "inline" ELSE cacheKey,
         variables  |-> context]

\* the TemplateDefinition records, template sources, contexts and cache keys
\* of the calls
TemplateIds == {"update-test", "cache-test"}

TemplateSources ==
    { << Literal("Hello "), Expression("name") >>,
      << Literal("Hi "), Expression("name") >> }

TemplateDefinitions ==
    { [id |-> id, source |-> template] : id \in TemplateIds, template \in TemplateSources }

Contexts == { [name |-> "World"], [name |-> "Test"] }

CacheKeys == { None, "update-test", "cached" }

\* registerTemplate(definition), part_005:85-89
RegisterTemplate(definition) ==
    /\ calls < MaxEngineCalls
    /\ definitions' = MapSet(definitions, definition.id, definition)
    /\ compiledCache' = MapDelete(compiledCache, definition.id)
    /\ registered' = Append(registered, definition)
    /\ calls' = calls + 1
    /\ UNCHANGED rendered
    /\ UNCHANGED <<transformerVars, analyzerVars, printerVars>>

\* render(templateId, context), part_005:108-115
Render(templateId, context) ==
    /\ calls < MaxEngineCalls
    /\ calls' = calls + 1
    /\ IF templateId \notin DOMAIN definitions
       THEN /\ rendered' = [called |-> TRUE, at |-> calls + 1, op |-> "render",
                            templateId |-> templateId, context |-> context,
                            threw |-> TRUE,
                            message |-> "Template not found: " \o templateId]
            /\ UNCHANGED compiledCache
       ELSE LET r == renderSource(compiledCache, definitions[templateId].source,
                                  context, templateId)
            IN  /\ rendered' = [called |-> TRUE, at |-> calls + 1, op |-> "render",
                                templateId |-> templateId, context |-> context,
                                threw |-> FALSE,
                                content |-> r.content,
                                resultId |-> r.templateId,
                                variables |-> r.variables]
                /\ compiledCache' = r.cache
    /\ UNCHANGED <<definitions, registered>>
    /\ UNCHANGED <<transformerVars, analyzerVars, printerVars>>

\* renderSource(source, context, cacheKey), part_005:117-143
RenderSource(template, context, cacheKey) ==
    /\ calls < MaxEngineCalls
    /\ calls' = calls + 1
    /\ LET r == renderSource(compiledCache, template, context, cacheKey)
       IN  /\ rendered' = [called |-> TRUE, at |-> calls + 1, op |-> "renderSource",
                           source |-> template, context |-> context,
                           cacheKey |-> cacheKey, threw |-> FALSE,
                           content |-> r.content,
                           resultId |-> r.templateId,
                           variables |-> r.variables]
           /\ compiledCache' = r.cache
    /\ UNCHANGED <<definitions, registered>>
    /\ UNCHANGED <<transformerVars, analyzerVars, printerVars>>

\* clearCache(), part_005:176-178
ClearCache ==
    /\ calls < MaxEngineCalls
    /\ calls' = calls + 1
    /\ compiledCache' = <<>>
    /\ UNCHANGED <<definitions, registered, rendered>>
    /\ UNCHANGED <<transformerVars, analyzerVars, printerVars>>

InitEngine ==
    /\ TransformerIdle
    /\ AnalyzerIdle
    /\ PrinterIdle
    /\ NewEngine

NextEngine ==
    \/ \E definition \in TemplateDefinitions : RegisterTemplate(definition)
    \/ \E templateId \in TemplateIds, context \in Contexts : Render(templateId, context)
    \/ \E template \in TemplateSources, context \in Contexts, cacheKey \in CacheKeys :
          RenderSource(template, context, cacheKey)
    \/ ClearCache

SpecEngine == InitEngine /\ [][NextEngine]_vars

-----------------------------------------------------------------------------
(* render and renderSource                                                 *)

\* the definition most recently registered under an id
RECURSIVE LatestRegistered(_, _)
LatestRegistered(history, id) ==
    IF history = <<>> THEN None
    ELSE IF history[Len(history)].id = id THEN history[Len(history)]
    ELSE LatestRegistered(SubSeq(history, 1, Len(history) - 1), id)

\* the step is a render call on a registered id
IsRender ==
    /\ calls' = calls + 1
    /\ rendered'.called
    /\ rendered'.at = calls'
    /\ rendered'.op = "render"
    /\ ~rendered'.threw

\* the step registers a definition
IsRegister == calls' = calls + 1 /\ Len(registered') = Len(registered) + 1

\* C23: after any sequence of registerTemplate, render, renderSource and
\* clearCache calls on one engine, render(id, ctx) renders the source of the
\* definition most recently registered under id; re-registering an id
\* removes its cached compiled template, so render never uses a stale one.
C23_RenderLatest ==
    [][ /\ IsRender =>
              rendered'.content
                = Evaluate(Compile(LatestRegistered(registered, rendered'.templateId).source),
                           rendered'.context)
        /\ IsRegister =>
              registered'[Len(registered')].id \notin DOMAIN compiledCache' ]_vars

\* C30: renderSource(source, ctx, cacheKey) always renders the source text
\* passed in that call: its content is what that source gives for that
\* context, whatever render and renderSource calls were made before with the
\* same cacheKey.
C30_RenderSourceOwnText ==
    (rendered.called /\ rendered.op = "renderSource") =>
        rendered.content = Evaluate(Compile(rendered.source), rendered.context)

====
